---- MODULE Spec2Model ----
(***************************************************************************)
(* A model of the syntezator MIDI player core: the big-endian byte reader  *)
(* and the Standard MIDI File decoder (src/src/midi.rs), the sample-buffer *)
(* synthesizer (src/src/synth.rs) and the Web Audio note scheduler         *)
(* (src/src/synth/web_audio.rs).                                           *)
(*                                                                         *)
(* Durations are whole nanoseconds, as in std::time::Duration.  f32/f64    *)
(* arithmetic is modelled as exact rational arithmetic on integers; the    *)
(* waveform values are fixed-point numbers with One standing for 1.0.      *)
(***************************************************************************)
EXTENDS Integers, Sequences, FiniteSets, TLC

VARIABLES
    \* ---- decoder (MIDIFileData::try_from, MIDITrack::new) ----
    buffer,         \* the whole file, a sequence of bytes
    pointer,        \* BigEndianReader.pointer of the file reader
    pc,             \* position of the running operation
    err,            \* <<>> or the MIDIFileError returned
    num_tracks,     \* MIDIFileData.num_tracks
    time_division,  \* MIDIFileData.time_division
    tracks,         \* MIDIFileData.tracks: a sequence of event sequences
    track_buffer,   \* the chunk the track reader runs over
    track_pointer,  \* BigEndianReader.pointer of the track reader
    events,         \* the events of the track being decoded
    read_deltas,    \* the delta_time read in front of each pushed event
    \* ---- renderers (MidiMeta::new, create_buffer, schedule) ----
    sample_rate,    \* the caller's sample rate in Hz
    meta,           \* MidiMeta.tracks: [channel_idx, duration] per track
    buffer_length,  \* create_buffer's first result
    buffers,        \* buffers[track][channel index][sample]
    track_index,    \* index (from 1) of the track in the outer for loop
    event_index,    \* index (from 1) of the next event of that track
    sample_number,  \* create_buffer's sample cursor
    tick_duration,  \* the tick duration in effect, in ns (schedule)
    samples_per_tick, \* sample_rate * tick_duration, the ns as_secs_f32 is given
    active_notes,   \* channel index -> set of notes (create_buffer)
    fill,           \* the last fill: its range and the notes it mixed
    time,           \* the scheduler's running time, in ns
    start_time,     \* ctx.current_time() at the start of a track, in ns
    played_notes,   \* <<channel, note>> -> PlayedNote (schedule)
    scheduled,      \* the descriptors handed to the audio graph
    panicked,       \* "" or the panic that ended the call
    runs,           \* what earlier runs of the renderer returned
    \* ---- a BigEndianReader driven call by call ----
    reads,          \* the calls made on the cursor and what each returned
    \* ---- a waveform (wave.rs) ----
    wave            \* the waveform under construction and its decomposition

dec_vars == <<buffer, pointer, pc, err, num_tracks, time_division, tracks,
              track_buffer, track_pointer, events, read_deltas>>
ren_vars == <<sample_rate, meta, buffer_length, buffers, track_index,
              event_index, sample_number, tick_duration, samples_per_tick,
              active_notes, fill,
              time, start_time, played_notes, scheduled, panicked, runs>>
vars == <<dec_vars, ren_vars, reads, wave>>
\* what a renderer never writes
dec_vars_but_pc == <<buffer, pointer, err, num_tracks, time_division, tracks,
                     track_buffer, track_pointer, events, read_deltas>>

(***************************************************************************)
(* Bounds of the model.                                                    *)
(***************************************************************************)
\* fragments (events or broken events) per track chunk of a decoded file
MaxFrags == 2
\* track chunks per decoded file, and the largest declared track count
MaxTracks == 2
\* events in front of the EndOfTrack of a rendered track
MaxEvents == 3

(***************************************************************************)
(* Small helpers.                                                          *)
(***************************************************************************)
Pow2(n) == 2 ^ n

Min(a, b) == IF a <= b THEN a ELSE b


RECURSIVE SetToSeqs(_)
\* every ordering of a finite set, each a sequence without repetition
SetToSeqs(S) ==
    IF S = {} THEN {<<>>}
    ELSE UNION {{<<x>> \o t : t \in SetToSeqs(S \ {x})} : x \in S}

(***************************************************************************)
(* BigEndianReader (midi.rs 6-81).  A read takes the buffer and the        *)
(* pointer and returns [ok, value, pointer]: ok = FALSE is None.           *)
(***************************************************************************)
\* a faulty variant: the magic of some other container
OTHER_HEADER_CHUNK == <<88, 84, 104, 100>>

MIDI_HEADER_CHUNK == <<77, 84, 104, 100>>   \* b"MThd"
MIDI_TRACK_CHUNK == <<77, 84, 114, 107>>    \* b"MTrk"

left_bytes(buf, p) == Len(buf) - p

\* a faulty variant: a read that cannot be served uses up what is left
read_range_draining(buf, p, n) ==
    IF left_bytes(buf, p) >= n
    THEN [ok |-> TRUE, value |-> SubSeq(buf, p + 1, p + n), pointer |-> p + n]
    ELSE [ok |-> FALSE, value |-> <<>>, pointer |-> Len(buf)]

read_range(buf, p, n) ==
    IF left_bytes(buf, p) >= n
    THEN [ok |-> TRUE, value |-> SubSeq(buf, p + 1, p + n), pointer |-> p + n]
    ELSE [ok |-> FALSE, value |-> <<>>, pointer |-> p]

read_u8(buf, p) ==
    LET r == read_range(buf, p, 1)
    IN  IF r.ok THEN [r EXCEPT !.value = r.value[1]]
        ELSE [r EXCEPT !.value = 0]

\* a faulty variant: the first byte taken as the less significant
read_u16_little_endian(buf, p) ==
    LET r == read_range(buf, p, 2)
    IN  IF r.ok THEN [r EXCEPT !.value = r.value[2] * 256 + r.value[1]]
        ELSE [r EXCEPT !.value = 0]

read_u16(buf, p) ==
    LET r == read_range(buf, p, 2)
    IN  IF r.ok THEN [r EXCEPT !.value = r.value[1] * 256 + r.value[2]]
        ELSE [r EXCEPT !.value = 0]

\* what the model keeps of a u32 of 2^31 or more: as a length it is beyond
\* every buffer, and its halves are kept exactly
HugeU32 == 2147483647

\* the u32 is kept as its two 16-bit halves, and as one number as well
read_u32(buf, p) ==
    LET r == read_range(buf, p, 4)
    IN  IF r.ok
        THEN LET hi == r.value[1] * 256 + r.value[2]
                 lo == r.value[3] * 256 + r.value[4]
             IN  [ok |-> TRUE, pointer |-> r.pointer, hi |-> hi, lo |-> lo,
                  value |-> IF hi < Pow2(15) THEN hi * Pow2(16) + lo
                            ELSE HugeU32]
        ELSE [ok |-> FALSE, pointer |-> r.pointer, hi |-> 0, lo |-> 0,
              value |-> 0]

\* a faulty variant: a shift by a whole byte
Shl8(x) == (x % Pow2(23)) * 256

\* (value + low7) << 7 on a u32: the bits shifted out of the top are lost
Shl7(x) == (x % Pow2(25)) * 128

RECURSIVE var_length_loop(_, _, _, _)
\* the body of `for _ in 0..4`, with i iterations already done
var_length_loop(buf, p, value, i) ==
    IF i = 4 THEN [ok |-> TRUE, value |-> value, pointer |-> p]
    ELSE LET r == read_u8(buf, p)
         IN  IF ~r.ok THEN [ok |-> FALSE, value |-> 0, pointer |-> p]
             ELSE IF r.value < 128
                  THEN [ok |-> TRUE, value |-> value + r.value,
                        pointer |-> r.pointer]
                  ELSE var_length_loop(buf, r.pointer,
                                       Shl7(value + (r.value % 128)), i + 1)

read_var_length(buf, p) == var_length_loop(buf, p, 0, 0)

(***************************************************************************)
(* MIDIFileError values (midi.rs 84-97) are tuples headed by their name.   *)
(***************************************************************************)
NoError == <<>>

Error(name) == <<name>>

UnexpectedMetaLength(event_type, event_length) ==
    <<"UnexpectedMetaLength", event_type, event_length>>

(***************************************************************************)
(* Events as midi.rs builds them (133-182, 217-295): a channel event owns  *)
(* a delta_time field, a meta event has no such field.                     *)
(***************************************************************************)
\* a faulty variant: NoteOff and NoteOn exchanged
ChannelKindsExchanged ==
    (8 :> "NoteOn") @@ (9 :> "NoteOff") @@ (10 :> "NoteAftertouch")
    @@ (11 :> "Controller") @@ (12 :> "ProgramChange")
    @@ (13 :> "ChannelAftertouch") @@ (14 :> "PitchBend")

ChannelKinds ==
    (8 :> "NoteOff") @@ (9 :> "NoteOn") @@ (10 :> "NoteAftertouch")
    @@ (11 :> "Controller") @@ (12 :> "ProgramChange")
    @@ (13 :> "ChannelAftertouch") @@ (14 :> "PitchBend")

from_track_event(delta_time, event_type, channel, param1, param2) ==
    IF event_type \in DOMAIN ChannelKinds
    THEN [ok |-> TRUE, err |-> NoError,
          event |-> [class |-> "Channel", kind |-> ChannelKinds[event_type],
                     delta_time |-> delta_time, channel |-> channel,
                     param1 |-> param1, param2 |-> param2]]
    ELSE [ok |-> FALSE, err |-> Error("InvalidTrackEventType"),
          event |-> [class |-> "None"]]

\* a faulty variant: a tempo of four bytes
MetaFixedLengthWide == (0 :> 2) @@ (32 :> 1) @@ (47 :> 0) @@ (81 :> 4) @@ (84 :> 5)

\* the meta types whose payload length the format fixes
MetaFixedLength == (0 :> 2) @@ (32 :> 1) @@ (47 :> 0) @@ (81 :> 3) @@ (84 :> 5)

MetaKind(event_type) ==
    CASE event_type = 0 -> "SequenceNumber"
      [] event_type = 1 -> "TextEvent"
      [] event_type = 2 -> "CopyrightNotice"
      [] event_type = 3 -> "SequenceTrackName"
      [] event_type = 4 -> "InstrumentName"
      [] event_type = 5 -> "Lyrics"
      [] event_type = 6 -> "Marker"
      [] event_type = 7 -> "CuePoint"
      [] event_type = 32 -> "ChannelPrefix"
      [] event_type = 47 -> "EndOfTrack"
      [] event_type = 81 -> "SetTempo"
      [] event_type = 84 -> "SMPTEOffset"
      [] event_type = 127 -> "SequencerSpecific"
      [] OTHER -> "UnknownEvent"

MetaRecord(event_type, data) ==
    IF event_type = 81
    THEN [class |-> "Meta", kind |-> "SetTempo", event_type |-> event_type,
          data |-> data,
          mpqn |-> data[1] * Pow2(16) + data[2] * 256 + data[3]]
    ELSE [class |-> "Meta", kind |-> MetaKind(event_type),
          event_type |-> event_type, data |-> data]

MetaFail(e, p) ==
    [ok |-> FALSE, err |-> e, event |-> [class |-> "None"], pointer |-> p]

from_meta_event(buf, p) ==
    LET t == read_u8(buf, p)
        l == read_var_length(buf, t.pointer)
        d == read_range(buf, l.pointer, l.value)
    IN  IF ~t.ok THEN MetaFail(Error("InvalidMetaEvent"), p)
        ELSE IF ~l.ok THEN MetaFail(Error("InvalidMetaEvent"), l.pointer)
        ELSE IF t.value \in DOMAIN MetaFixedLength
                /\ l.value # MetaFixedLength[t.value]
             THEN MetaFail(UnexpectedMetaLength(t.value, l.value), l.pointer)
        ELSE IF ~d.ok THEN MetaFail(Error("InvalidMetaEvent"), d.pointer)
        ELSE [ok |-> TRUE, err |-> NoError,
              event |-> MetaRecord(t.value, d.value), pointer |-> d.pointer]

(***************************************************************************)
(* MIDIFileData::parse_time_division (midi.rs 639-654).                    *)
(***************************************************************************)
\* a faulty variant: code 29 taken for 30 frames per second
SMPTECodesRounded == (24 :> "_24") @@ (25 :> "_25") @@ (29 :> "_30") @@ (30 :> "_30")

SMPTECodes == (24 :> "_24") @@ (25 :> "_25") @@ (29 :> "_29_97") @@ (30 :> "_30")

parse_time_division(value) ==
    IF value \div Pow2(15) = 0
    THEN [ok |-> TRUE, err |-> NoError,
          value |-> [mode |-> "TicksPerBit", ticks |-> value % Pow2(15)]]
    ELSE LET code == (value % Pow2(15)) \div 256
         IN  IF code \in DOMAIN SMPTECodes
             THEN [ok |-> TRUE, err |-> NoError,
                   value |-> [mode |-> "FramesPerSecond",
                              smpte |-> SMPTECodes[code],
                              ticks |-> value % 256]]
             ELSE [ok |-> FALSE, err |-> Error("InvalidSMPTEValue"),
                   value |-> [mode |-> "None"]]

NoTimeDivision == [mode |-> "None"]

(***************************************************************************)
(* The files handed to the decoder: a 14-byte header followed by track     *)
(* chunks, each chunk body a run of event encodings, some of them broken.  *)
(***************************************************************************)
U16(n) == <<n \div 256, n % 256>>

U32(n) == <<n \div Pow2(24), (n \div Pow2(16)) % 256, (n \div 256) % 256, n % 256>>

HeaderBytes(magic, length, format, ntracks, division) ==
    magic \o U32(length) \o U16(format) \o U16(ntracks) \o U16(division)

\* raw time-division words: 0, 40 and 32767 ticks per quarter note, SMPTE
\* 25 fps with 0 and with 40 ticks per frame, 24, 29.97 and 30 fps, and the
\* unknown SMPTE codes 7, 0, 26 and 127
TimeDivisionWords ==
    {0, 40, 32767, 32768 + 25 * 256, 32768 + 25 * 256 + 40, 32768 + 7 * 256,
     32768 + 24 * 256 + 255, 32768 + 29 * 256 + 40, 32768 + 30 * 256 + 1,
     32768 + 4, 32768 + 26 * 256 + 40, 65535}

FormatTypes == {0, 1, 2}

Headers ==
    {HeaderBytes(MIDI_HEADER_CHUNK, 6, f, n, d) :
        f \in FormatTypes, n \in 0..MaxTracks, d \in TimeDivisionWords}
    \cup {HeaderBytes(<<88, 84, 104, 100>>, 6, 0, 1, 40),
          HeaderBytes(MIDI_HEADER_CHUNK, 5, 0, 1, 40),
          SubSeq(HeaderBytes(MIDI_HEADER_CHUNK, 6, 0, 1, 40), 1, 9),
          <<>>, <<77, 84>>, <<77, 84, 104, 100, 0, 0>>,
          MIDI_HEADER_CHUNK \o <<128, 0, 0, 6>> \o U16(0) \o U16(1) \o U16(40)}

Fragments ==
    { <<0, 255, 47, 0>>,                 \* EndOfTrack after 0 ticks
      <<5, 255, 47, 0>>,                 \* EndOfTrack after 5 ticks
      <<3, 144, 69, 100>>,               \* NoteOn ch 0 after 3 ticks
      <<129, 0, 129, 69, 64>>,           \* NoteOff ch 1 after 128 ticks
      <<2, 255, 81, 3, 3, 208, 144>>,    \* SetTempo 250000 after 2 ticks
      <<4, 255, 6, 1, 77>>,              \* Marker "M" after 4 ticks
      <<0, 240>>,                        \* SysEx
      <<0, 255, 47, 1, 0>>,              \* EndOfTrack with a payload byte
      <<0, 144, 69>>,                    \* NoteOn cut short
      <<1, 112, 0, 0>>,                  \* status byte with high nibble 7
      <<0, 255, 0, 2, 0, 1>>,            \* SequenceNumber
      <<0, 255, 0, 1, 7>>,               \* SequenceNumber of length 1
      <<0, 255, 32, 1, 3>>,              \* ChannelPrefix
      <<0, 255, 32, 2, 3, 3>>,           \* ChannelPrefix of length 2
      <<0, 255, 84, 5, 1, 2, 3, 4, 5>>,  \* SMPTEOffset
      <<0, 255, 84, 4, 1, 2, 3, 4>>,     \* SMPTEOffset of length 4
      <<0, 255, 81, 2, 3, 208>>,         \* SetTempo of length 2
      <<0, 165, 69, 10>>,                \* NoteAftertouch ch 5
      <<0, 191, 7, 100>>,                \* Controller ch 15
      <<0, 194, 5, 0>>,                  \* ProgramChange ch 2
      <<0, 211, 9, 0>>,                  \* ChannelAftertouch ch 3
      <<0, 228, 0, 64>>,                 \* PitchBend ch 4
      <<0, 241, 0, 0>> }                 \* status byte 0xF1

RECURSIVE Bodies(_)
\* the concatenations of at most n fragments
Bodies(n) ==
    IF n = 0 THEN {<<>>}
    ELSE Bodies(n - 1) \cup {b \o f : b \in Bodies(n - 1), f \in Fragments}

TrackChunk(body) == MIDI_TRACK_CHUNK \o U32(Len(body)) \o body

RECURSIVE Copies(_, _)
Copies(s, n) == IF n = 0 THEN <<>> ELSE s \o Copies(s, n - 1)

\* NoteOn then EndOfTrack: the track behind every header variant
SimpleBody == <<3, 144, 69, 100, 0, 255, 47, 0>>

\* EndOfTrack with two more bytes of the chunk behind it
SlackBody == <<0, 255, 47, 0, 9, 9>>

\* the bodies of the second and later chunks: EndOfTrack alone, a NoteOn
\* with no EndOfTrack, and an EndOfTrack followed by one more byte
LaterBodies == {<<0, 255, 47, 0>>, <<3, 144, 69, 100>>, <<5, 255, 47, 0, 9>>}

RECURSIVE LaterChunks(_)
\* the concatenations of at most n later chunks
LaterChunks(n) ==
    IF n = 0 THEN {<<>>}
    ELSE LaterChunks(n - 1)
         \cup {c \o TrackChunk(b) : c \in LaterChunks(n - 1), b \in LaterBodies}

\* no chunk; one chunk of up to MaxFrags fragments; a chunk of at most one
\* fragment, or SimpleBody, or SlackBody, with later chunks behind it
TrackLists ==
    {<<>>}
    \cup {TrackChunk(b) : b \in Bodies(MaxFrags)}
    \cup {TrackChunk(b) \o c : b \in Bodies(1) \cup {SimpleBody, SlackBody},
                                c \in LaterChunks(MaxTracks - 1)}

InputFiles ==
    {h \o Copies(TrackChunk(SimpleBody), c) : h \in Headers, c \in 0..MaxTracks}
    \cup {HeaderBytes(MIDI_HEADER_CHUNK, 6, 0, n, 40) \o t :
            n \in 0..MaxTracks, t \in TrackLists}

(***************************************************************************)
(* State of the renderers while they are not running.                      *)
(***************************************************************************)
\* no waveform has been asked for
NoWave == [kind |-> "", real |-> <<>>, imag |-> <<>>, built |-> FALSE,
           terms |-> <<>>]

RenderIdle ==
    /\ sample_rate = 0
    /\ meta = <<>>
    /\ buffer_length = 0
    /\ buffers = <<>>
    /\ track_index = 0
    /\ event_index = 0
    /\ sample_number = 0
    /\ tick_duration = 0
    /\ samples_per_tick = 0
    /\ active_notes = <<>>
    /\ fill = [track |-> 0, from |-> 0, to |-> 0, notes |-> <<>>]
    /\ time = 0
    /\ start_time = 0
    /\ played_notes = <<>>
    /\ scheduled = <<>>
    /\ panicked = ""
    /\ runs = <<>>

(***************************************************************************)
(* MIDIFileData::try_from (midi.rs 660-691) and MIDITrack::new (569-617).  *)
(***************************************************************************)
DecodeInit ==
    /\ buffer \in InputFiles
    /\ pointer = 0
    /\ pc = "header"
    /\ err = NoError
    /\ num_tracks = 0
    /\ time_division = NoTimeDivision
    /\ tracks = <<>>
    /\ track_buffer = <<>>
    /\ track_pointer = 0
    /\ events = <<>>
    /\ read_deltas = <<>>
    /\ RenderIdle
    /\ reads = <<>>
    /\ wave = NoWave

\* the header checks of try_from, up to the start of the track loop
HeaderResult(buf) ==
    LET magic == read_range(buf, 0, 4)
        length == read_u32(buf, magic.pointer)
        format == read_u16(buf, length.pointer)
        count == read_u16(buf, format.pointer)
        division == read_u16(buf, count.pointer)
        parsed == parse_time_division(division.value)
        Fail(e, p) == [err |-> e, num_tracks |-> 0,
                       time_division |-> NoTimeDivision, pointer |-> p]
    IN  IF ~(magic.ok /\ magic.value = MIDI_HEADER_CHUNK)
        THEN Fail(Error("HeaderMismatch"), magic.pointer)
        ELSE IF ~(length.ok /\ length.value = 6)
        THEN Fail(Error("HeaderSizeMismatch"), length.pointer)
        ELSE IF ~(format.ok /\ format.value = 0)
        THEN Fail(Error("UnsupportedType"), format.pointer)
        ELSE IF ~count.ok
        THEN Fail(Error("InvalidTrackCount"), count.pointer)
        ELSE IF ~division.ok
        THEN Fail(Error("InvalidTimeDivision"), division.pointer)
        ELSE IF ~parsed.ok
        THEN Fail(parsed.err, division.pointer)
        ELSE [err |-> NoError, num_tracks |-> count.value,
              time_division |-> parsed.value, pointer |-> division.pointer]

ParseHeader ==
    /\ pc = "header"
    /\ LET h == HeaderResult(buffer)
       IN  /\ err' = h.err
           /\ pointer' = h.pointer
           /\ num_tracks' = h.num_tracks
           /\ time_division' = h.time_division
           /\ pc' = IF h.err # NoError THEN "error"
                    ELSE IF h.num_tracks = 0 THEN "done" ELSE "track"
    /\ UNCHANGED <<buffer, tracks, track_buffer, track_pointer, events,
                   read_deltas, ren_vars, reads, wave>>

\* a faulty variant: the events are parsed from all that is left of the file
track_chunk_unscoped(buf, p, n) ==
    IF left_bytes(buf, p) >= n
    THEN [ok |-> TRUE, value |-> SubSeq(buf, p + 1, Len(buf)), pointer |-> p + n]
    ELSE [ok |-> FALSE, value |-> <<>>, pointer |-> p]

\* reader.read_range(chunk_size as usize): the bytes the sub-reader is given
track_chunk(buf, p, n) == read_range(buf, p, n)

\* the chunk header of MIDITrack::new: magic, size, and the sub-reader
TrackNew ==
    /\ pc = "track"
    /\ LET magic == read_range(buffer, pointer, 4)
           size == read_u32(buffer, magic.pointer)
           chunk == track_chunk(buffer, size.pointer, size.value)
       IN  IF magic.ok /\ magic.value = MIDI_TRACK_CHUNK /\ size.ok /\ chunk.ok
           THEN /\ track_buffer' = chunk.value
                /\ pointer' = chunk.pointer
                /\ pc' = "event"
                /\ err' = err
           ELSE /\ track_buffer' = <<>>
                /\ pointer' = IF ~magic.ok THEN magic.pointer ELSE size.pointer
                /\ pc' = "error"
                /\ err' = Error("InvalidTrackChunk")
    /\ track_pointer' = 0
    /\ events' = <<>>
    /\ read_deltas' = <<>>
    /\ UNCHANGED <<buffer, num_tracks, time_division, tracks, ren_vars,
                   reads, wave>>

\* one iteration of the event loop of MIDITrack::new
EventResult(buf, p) ==
    LET delta == read_var_length(buf, p)
        status == read_u8(buf, delta.pointer)
        metaev == from_meta_event(buf, status.pointer)
        param1 == read_u8(buf, status.pointer)
        param2 == read_u8(buf, param1.pointer)
        chanev == from_track_event(delta.value, status.value \div 16,
                                   status.value % 16, param1.value, param2.value)
        Fail(e) == [err |-> e, event |-> [class |-> "None"], pointer |-> p,
                    delta_time |-> 0]
    IN  IF ~delta.ok \/ ~status.ok THEN Fail(Error("InvalidEvent"))
        ELSE IF status.value = 255
        THEN IF metaev.ok
             THEN [err |-> NoError, event |-> metaev.event,
                   pointer |-> metaev.pointer, delta_time |-> delta.value]
             ELSE Fail(metaev.err)
        ELSE IF status.value = 240 THEN Fail(Error("UnsupportedEvent"))
        ELSE IF ~param1.ok \/ ~param2.ok THEN Fail(Error("InvalidEvent"))
        ELSE IF ~chanev.ok THEN Fail(chanev.err)
        ELSE [err |-> NoError, event |-> chanev.event,
              pointer |-> param2.pointer, delta_time |-> delta.value]

\* a faulty variant: any meta event ends the track
is_end_of_track_any_meta(event) == event.class = "Meta"

is_end_of_track(event) == event.class = "Meta" /\ event.kind = "EndOfTrack"

ReadEvent ==
    /\ pc = "event"
    /\ LET r == EventResult(track_buffer, track_pointer)
       IN  IF r.err # NoError
           THEN /\ err' = r.err
                /\ pc' = "error"
                /\ UNCHANGED <<events, read_deltas, tracks, track_pointer>>
           ELSE /\ err' = err
                /\ track_pointer' = r.pointer
                /\ events' = Append(events, r.event)
                /\ read_deltas' = Append(read_deltas, r.delta_time)
                /\ IF is_end_of_track(r.event)
                   THEN /\ tracks' = Append(tracks, events')
                        /\ pc' = IF Len(tracks') = num_tracks THEN "done"
                                 ELSE "track"
                   ELSE /\ tracks' = tracks
                        /\ pc' = "event"
    /\ UNCHANGED <<buffer, pointer, num_tracks, time_division, track_buffer,
                   ren_vars, reads, wave>>

DecodeNext == ParseHeader \/ TrackNew \/ ReadEvent

SpecDecode == DecodeInit /\ [][DecodeNext]_vars

(***************************************************************************)
(* A BigEndianReader on its own: a cursor over a buffer, and the calls a   *)
(* caller can make on it in any order (midi.rs 11-81).                     *)
(***************************************************************************)
MaxBytes == 4
MaxReads == 3

\* 0x00, 0x48, 0x81: a zero, a byte with the top bit clear, one with it set
ReaderBytes == {0, 72, 129}

RECURSIVE ByteRuns(_)
ByteRuns(n) ==
    IF n = 0 THEN {<<>>}
    ELSE ByteRuns(n - 1)
         \cup {Append(r, b) : r \in {x \in ByteRuns(n - 1) : Len(x) = n - 1},
                              b \in ReaderBytes}

\* the MIDI variable-length quantity of v < 2^28: seven bits to the byte, most
\* significant first, the top bit set on every byte but the last
EncodeVarLength(v) ==
    IF v < Pow2(7) THEN <<v>>
    ELSE IF v < Pow2(14) THEN <<128 + (v \div Pow2(7)), v % 128>>
    ELSE IF v < Pow2(21)
    THEN <<128 + (v \div Pow2(14)), 128 + ((v \div Pow2(7)) % 128), v % 128>>
    ELSE <<128 + (v \div Pow2(21)), 128 + ((v \div Pow2(14)) % 128),
           128 + ((v \div Pow2(7)) % 128), v % 128>>

\* the ends of the ranges of 1, 2, 3 and 4 encoded bytes, and values between
VarValues ==
    {0, 72, 127, 128, 200, 16383, 16384, 16512, 16584, 1048576, 2097151,
     2097152, 2113664, 2113736, 268435455}

\* bytes with the top bit set in the places of a u16 and a u32
HighBytes == <<255, 238, 13, 204, 187>>

ReaderBuffers ==
    ByteRuns(MaxBytes)
    \cup {EncodeVarLength(v) \o t : v \in VarValues, t \in {<<>>, <<129>>}}
    \cup {HighBytes}

\* the n of the read_range calls
RangeLengths == {0, 1, 3}

\* BigEndianReader::new
ReaderInit ==
    /\ buffer \in ReaderBuffers
    /\ pointer = 0
    /\ pc = "reader"
    /\ err = NoError
    /\ num_tracks = 0
    /\ time_division = NoTimeDivision
    /\ tracks = <<>>
    /\ track_buffer = <<>>
    /\ track_pointer = 0
    /\ events = <<>>
    /\ read_deltas = <<>>
    /\ RenderIdle
    /\ reads = <<>>
    /\ wave = NoWave

\* one call on the cursor: r is what the call returns
ReaderCall(op, n, r) ==
    /\ pc = "reader"
    /\ Len(reads) < MaxReads
    /\ pointer' = r.pointer
    /\ reads' = Append(reads, [op |-> op, n |-> n, before |-> pointer,
                               result |-> r])
    /\ UNCHANGED <<buffer, pc, err, num_tracks, time_division, tracks,
                   track_buffer, track_pointer, events, read_deltas, ren_vars,
                   wave>>

ReadU8 == ReaderCall("read_u8", 1, read_u8(buffer, pointer))

ReadU16 == ReaderCall("read_u16", 2, read_u16(buffer, pointer))

ReadU32 == ReaderCall("read_u32", 4, read_u32(buffer, pointer))

ReadRange ==
    \E n \in RangeLengths :
        ReaderCall("read_range", n, read_range(buffer, pointer, n))

ReadVarLength ==
    ReaderCall("read_var_length", 0, read_var_length(buffer, pointer))

ReaderNext == ReadU8 \/ ReadU16 \/ ReadU32 \/ ReadRange \/ ReadVarLength

SpecReader == ReaderInit /\ [][ReaderNext]_vars

(***************************************************************************)
(* Timing (midi.rs 113-129, 297-323).  A Duration is a number of ns.       *)
(***************************************************************************)
Billion == 1000000000

MICROSECONDS_PER_MINUTE == 60000000

\* a faulty variant: Tempo::from_bpm(240)
QuickTempo == MICROSECONDS_PER_MINUTE \div 240

\* Tempo::default() = Tempo::from_bpm(120), in microseconds per quarter
DefaultTempo == MICROSECONDS_PER_MINUTE \div 120

\* frames per second times 100: 24.0, 25.0, 29.97, 30.0
SMPTEFps ==
    ("_24" :> 2400) @@ ("_25" :> 2500) @@ ("_29_97" :> 2997) @@ ("_30" :> 3000)

\* the u32 that tick_duration divides by: ticks as u32, or
\* (fps * ticks as f32) as u32
tick_divisor(division) ==
    IF division.mode = "TicksPerBit" THEN division.ticks
    ELSE (SMPTEFps[division.smpte] * division.ticks) \div 100

\* Duration / 0 panics; otherwise the quotient in whole nanoseconds
tick_duration_panics(division) == tick_divisor(division) = 0

tick_duration_of(division, mpqn) ==
    IF division.mode = "TicksPerBit"
    THEN (mpqn * 1000) \div tick_divisor(division)
    ELSE Billion \div tick_divisor(division)

(***************************************************************************)
(* The f32 arithmetic of create_buffer (synth.rs 126-127, 137-139, 145).   *)
(* A positive f32 is [m, e] with 2^23 <= m < 2^24 and the value m * 2^e,   *)
(* zero is [0, 0]; every operation rounds to nearest, ties to even.        *)
(***************************************************************************)
F32Zero == [m |-> 0, e |-> 0]

RECURSIVE BitLength(_)
BitLength(n) == IF n = 0 THEN 0 ELSE 1 + BitLength(n \div 2)

\* the f32 nearest to (q + f) * 2^e, where 0 <= f < 1 and sticky says f > 0
F32Round(q, sticky, e) ==
    IF q = 0 THEN F32Zero
    ELSE LET s == BitLength(q) - 24
         IN  IF s <= 0 THEN [m |-> q * Pow2(0 - s), e |-> e + s]
             ELSE LET kept == q \div Pow2(s)
                      low == q % Pow2(s)
                      half == Pow2(s - 1)
                      up == \/ low > half
                            \/ low = half /\ (sticky \/ kept % 2 = 1)
                      r == IF up THEN kept + 1 ELSE kept
                  IN  IF r = Pow2(24) THEN [m |-> Pow2(23), e |-> e + s + 1]
                      ELSE [m |-> r, e |-> e + s]

\* n as f32, for an unsigned n below 2^31
F32OfNat(n) == F32Round(n, FALSE, 0)

RECURSIVE LongDivision(_, _, _, _)
\* k more binary digits of a quotient q with remainder r under the divisor d
LongDivision(q, r, d, k) ==
    IF k = 0 THEN <<q, r>>
    ELSE IF 2 * r >= d THEN LongDivision(2 * q + 1, 2 * r - d, d, k - 1)
    ELSE LongDivision(2 * q, 2 * r, d, k - 1)

\* a / b on f32, b not zero
F32Div(a, b) ==
    IF a.m = 0 THEN F32Zero
    ELSE LET qr == LongDivision(a.m \div b.m, a.m % b.m, b.m, 25)
         IN  F32Round(qr[1], qr[2] # 0, a.e - b.e - 25)

\* a + b on f32
F32Add(a, b) ==
    IF a.m = 0 THEN b
    ELSE IF b.m = 0 THEN a
    ELSE LET hi == IF a.e >= b.e THEN a ELSE b
             lo == IF a.e >= b.e THEN b ELSE a
             diff == hi.e - lo.e
             part == IF diff > 27 THEN 0 ELSE (lo.m * 4) \div Pow2(diff)
             sticky == IF diff > 27 THEN TRUE ELSE (lo.m * 4) % Pow2(diff) # 0
         IN  F32Round(hi.m * 4 + part, sticky, hi.e - 2)

\* (n as f32) * a for an unsigned n below 2^7, which f32 holds exactly
F32MulNat(n, a) == F32Round(n * a.m, FALSE, a.e)

\* a.floor() as usize and a as usize, for a positive a
F32Floor(a) ==
    IF a.e >= 0 THEN a.m * Pow2(a.e)
    ELSE IF 0 - a.e > 30 THEN 0
    ELSE a.m \div Pow2(0 - a.e)

\* Duration::as_secs_f32 of a Duration of ns nanoseconds:
\* (secs as f32) + (nanos as f32) / (NANOS_PER_SEC as f32)
as_secs_f32(ns) ==
    F32Add(F32OfNat(ns \div Billion),
           F32Div(F32OfNat(ns % Billion), F32OfNat(Billion)))

\* (n as f32 * d.as_secs_f32()) as usize for a Duration of d nanoseconds
samples_of(n, d) == F32Floor(F32MulNat(n, as_secs_f32(d)))

\* the exact floor(n * x / 10^9) for x in billionths, without leaving 32-bit
\* integers
MulSecs(n, x) == (n * (x \div 1000) + (n * (x % 1000)) \div 1000) \div 1000000

(***************************************************************************)
(* The decoded files handed to the renderers.  The renderers read every    *)
(* event through event.delta_time() and event.kind(); every track is what  *)
(* MIDITrack::new can return: events, then one EndOfTrack.                 *)
(***************************************************************************)
NoteOn(d, ch, note, vel) ==
    [class |-> "Channel", kind |-> "NoteOn", delta_time |-> d,
     channel |-> ch, param1 |-> note, param2 |-> vel]

NoteOff(d, ch, note, vel) ==
    [class |-> "Channel", kind |-> "NoteOff", delta_time |-> d,
     channel |-> ch, param1 |-> note, param2 |-> vel]

Controller(d, ch) ==
    [class |-> "Channel", kind |-> "Controller", delta_time |-> d,
     channel |-> ch, param1 |-> 7, param2 |-> 100]

SetTempo(d, mpqn) ==
    [class |-> "Meta", kind |-> "SetTempo", delta_time |-> d, mpqn |-> mpqn]

EndOfTrack(d) == [class |-> "Meta", kind |-> "EndOfTrack", delta_time |-> d]

Deltas == {0, 2}

RenderEvents ==
    UNION {{NoteOn(d, 0, 9, 100), NoteOn(d, 0, 9, 50), NoteOn(d, 0, 21, 100),
            NoteOff(d, 0, 9, 64), SetTempo(d, 250000)} : d \in Deltas}
    \cup {NoteOn(0, 1, 21, 200), NoteOff(2, 1, 21, 127), Controller(2, 2)}

RECURSIVE EventRuns(_)
\* the sequences of at most n events
EventRuns(n) ==
    IF n = 0 THEN {<<>>}
    ELSE EventRuns(n - 1)
         \cup {r \o <<e>> : r \in EventRuns(n - 1), e \in RenderEvents}

RenderTracks == {r \o <<EndOfTrack(d)>> : r \in EventRuns(MaxEvents), d \in Deltas}

\* a second track: silent, or one note held over a tempo change
LaterTracks ==
    { <<EndOfTrack(0)>>,
      <<NoteOn(0, 3, 9, 90), SetTempo(2, 125000), NoteOff(2, 3, 9, 0),
        EndOfTrack(1)>> }

SimpleTrack == <<NoteOn(0, 0, 9, 100), NoteOff(2, 0, 9, 64), EndOfTrack(1)>>

\* a release with nothing held, a note played and released, a note left held
ReleaseTrack ==
    <<NoteOff(0, 0, 9, 64), NoteOn(2, 0, 9, 100), NoteOff(2, 0, 9, 64),
      NoteOn(0, 0, 21, 100), EndOfTrack(2)>>

\* a note held until the track ends two ticks later
HeldTrack == <<NoteOn(0, 0, 9, 100), EndOfTrack(2)>>

\* the time divisions rendered: 0 and 40 ticks per quarter note, 25 frames
\* per second with 0 ticks per frame, and each of the four frame rates with
\* 40 ticks per frame
RenderDivisions ==
    {parse_time_division(w).value :
        w \in {0, 40, 32768 + 25 * 256}
              \cup {32768 + c * 256 + 40 : c \in {24, 25, 29, 30}}}

\* <<time_division, tracks>> pairs
FileModels ==
    {<<d, t>> : d \in RenderDivisions,
                t \in {<<>>, <<SimpleTrack>>, <<SimpleTrack, SimpleTrack>>}}
    \cup {<<parse_time_division(40).value, <<t>> \o l>> :
            t \in RenderTracks \cup {ReleaseTrack},
            l \in {<<>>} \cup {<<x>> : x \in LaterTracks}}
    \cup {<<parse_time_division(55).value, <<HeldTrack>>>>}

SampleRates == {110}

DecodeIdle ==
    /\ buffer = <<>>
    /\ pointer = 0
    /\ err = NoError
    /\ track_buffer = <<>>
    /\ track_pointer = 0
    /\ events = <<>>
    /\ read_deltas = <<>>

\* a synthesizer built over one of the files, about to take the step first
RenderInitOver(first, files) ==
    /\ DecodeIdle
    /\ \E m \in files :
        /\ time_division = m[1]
        /\ tracks = m[2]
        /\ num_tracks = Len(m[2])
    /\ sample_rate \in SampleRates
    /\ reads = <<>>
    /\ wave = NoWave
    /\ pc = first
    /\ meta = <<>>
    /\ buffer_length = 0
    /\ buffers = <<>>
    /\ track_index = 0
    /\ event_index = 0
    /\ sample_number = 0
    /\ tick_duration = 0
    /\ samples_per_tick = 0
    /\ active_notes = <<>>
    /\ fill = [track |-> 0, from |-> 0, to |-> 0, notes |-> <<>>]
    /\ time = 0
    /\ start_time = 0
    /\ played_notes = <<>>
    /\ scheduled = <<>>
    /\ panicked = ""
    /\ runs = <<>>

RenderInit(first) == RenderInitOver(first, FileModels)

Panic(message) ==
    /\ panicked' = message
    /\ pc' = "panic"

(***************************************************************************)
(* MidiMeta::new and MidiMeta::total_duration (synth.rs 42-88).            *)
(***************************************************************************)
RECURSIVE TrackMetaTempoFirst(_, _, _, _, _)
\* a faulty variant: a SetTempo converts its own delta time with the new tempo
TrackMetaTempoFirst(evs, i, tick, channels, duration) ==
    IF i > Len(evs) THEN [channels |-> channels, duration |-> duration]
    ELSE LET e == evs[i]
             t == IF e.kind = "SetTempo"
                  THEN tick_duration_of(time_division, e.mpqn)
                  ELSE tick
             d == duration + t * e.delta_time
         IN  IF e.class = "Channel"
             THEN TrackMetaTempoFirst(evs, i + 1, t, channels \cup {e.channel}, d)
             ELSE IF e.kind = "EndOfTrack"
             THEN [channels |-> channels, duration |-> d]
             ELSE TrackMetaTempoFirst(evs, i + 1, t, channels, d)

RECURSIVE TrackMeta(_, _, _, _, _)
\* the inner loop of MidiMeta::new from event i on: the channel set and the
\* duration, given the tick duration, the channels and the duration so far
TrackMeta(evs, i, tick, channels, duration) ==
    IF i > Len(evs) THEN [channels |-> channels, duration |-> duration]
    ELSE LET e == evs[i]
             d == duration + tick * e.delta_time
         IN  IF e.class = "Channel"
             THEN TrackMeta(evs, i + 1, tick, channels \cup {e.channel}, d)
             ELSE IF e.kind = "EndOfTrack"
             THEN [channels |-> channels, duration |-> d]
             ELSE IF e.kind = "SetTempo"
             THEN TrackMeta(evs, i + 1, tick_duration_of(time_division, e.mpqn),
                            channels, d)
             ELSE TrackMeta(evs, i + 1, tick, channels, d)

\* a faulty variant: the metadata pass begins a track at 240 beats per minute
TrackMetaOfQuick(evs) ==
    TrackMeta(evs, 1, tick_duration_of(time_division, QuickTempo), {}, 0)

TrackMetaOf(evs) ==
    TrackMeta(evs, 1, tick_duration_of(time_division, DefaultTempo), {}, 0)

\* channels.into_iter().collect(): a HashSet yields its elements in an
\* order the program does not control
ChannelOrders(channels) == SetToSeqs(channels)

RECURSIVE MaxOf(_)
MaxOf(S) == IF S = {} THEN 0
            ELSE LET x == CHOOSE x \in S : \A y \in S : y <= x IN x

total_duration(m) == MaxOf({m[t].duration : t \in DOMAIN m})

RECURSIVE MetaSeqs(_)
\* the metadata MidiMeta::new can build for the first n tracks
MetaSeqs(n) ==
    IF n = 0 THEN {<<>>}
    ELSE {Append(m, [channel_idx |-> o,
                     duration |-> TrackMetaOf(tracks[n]).duration]) :
            m \in MetaSeqs(n - 1),
            o \in ChannelOrders(TrackMetaOf(tracks[n]).channels)}

\* MidiSynth::new: the metadata of every track
MetaNew ==
    /\ pc = "new"
    /\ IF tracks # <<>> /\ tick_duration_panics(time_division)
       THEN /\ Panic("divide by zero error when dividing duration by scalar")
            /\ meta' = meta
       ELSE /\ meta' \in MetaSeqs(Len(tracks))
            /\ pc' = "create"
            /\ panicked' = panicked
    /\ UNCHANGED <<dec_vars_but_pc, runs, reads, wave, sample_rate, buffer_length, buffers,
                   track_index, event_index, sample_number, tick_duration,
                   samples_per_tick, active_notes, fill, time, start_time,
                   played_notes, scheduled>>

(***************************************************************************)
(* Notes and the sine wave (synth.rs 90-107, wave.rs 27-42).  Notes are    *)
(* whole octaves from note 9 (13.75 Hz), frequencies are in mHz, and a     *)
(* sample rate of 110 Hz puts every sample on an eighth of a period.       *)
(***************************************************************************)
\* the fixed-point 1.0: a multiple of 12, so that sums of sine values
\* divide exactly by 1, 2, 3 and 4
One == 12000

\* 440 * 2^((note - 69) / 12) for note = 9 + 12 k, in mHz
frequency(note) == 13750 * Pow2((note - 9) \div 12)

\* sin(2 pi k / 8) for k = 0..7, in units of 1/One (sin(pi/4) as 0.707)
SineTable == <<0, 8484, 12000, 8484, 0, -8484, -12000, -8484>>

\* SineWave::value(frequency, sample / sample_rate)
sine_value(freq, sample, rate) ==
    SineTable[(((8 * freq * sample) \div (rate * 1000)) % 8) + 1]

RECURSIVE SumOver(_, _, _)
\* the sum over the notes of a set of their wave value at a sample
SumOver(notes, sample, rate) ==
    IF notes = {} THEN 0
    ELSE LET n == CHOOSE n \in notes : TRUE
         IN  sine_value(frequency(n), sample, rate)
             + SumOver(notes \ {n}, sample, rate)

Max(a, b) == IF a >= b THEN a ELSE b

\* the divisor of the mix: active_notes.len(), at least 1
mix_divisor(active, idx) == Max(Cardinality(DOMAIN active), 1)

\* the value create_buffer writes at a sample of channel index idx
mix(active, idx, sample, rate) ==
    SumOver(active[idx], sample, rate) \div mix_divisor(active, idx)

(***************************************************************************)
(* MidiSynth::create_buffer (synth.rs 125-225).                            *)
(***************************************************************************)
BufferInit == RenderInit("new")

\* buffer_length and the zeroed buffers
CreateBuffer ==
    /\ pc = "create"
    /\ buffer_length' = samples_of(sample_rate, total_duration(meta))
    /\ buffers' = [t \in DOMAIN meta |->
                     [c \in DOMAIN meta[t].channel_idx |->
                        [n \in 1..buffer_length' |-> 0]]]
    /\ track_index' = 1
    /\ pc' = IF tracks = <<>> THEN "done" ELSE "track"
    /\ UNCHANGED <<dec_vars_but_pc, runs, reads, wave, sample_rate, meta, event_index,
                   sample_number, tick_duration, samples_per_tick,
                   active_notes, fill, time, start_time, played_notes,
                   scheduled, panicked>>

\* the head of the loop over the tracks
BufferTrack ==
    /\ pc = "track"
    /\ IF tick_duration_panics(time_division)
       THEN /\ Panic("divide by zero error when dividing duration by scalar")
            /\ UNCHANGED <<sample_number, samples_per_tick, active_notes,
                           event_index>>
       ELSE /\ sample_number' = 0
            /\ samples_per_tick' =
                  sample_rate * tick_duration_of(time_division, DefaultTempo)
            /\ active_notes' = <<>>
            /\ event_index' = 1
            /\ pc' = "event"
            /\ panicked' = panicked
    /\ UNCHANGED <<dec_vars_but_pc, runs, reads, wave, sample_rate, meta, buffer_length, buffers,
                   track_index, tick_duration, fill, time, start_time,
                   played_notes, scheduled>>

\* MidiTrackMeta::channel_index: the position (from 1) of a channel, or 0
\* where `expect` panics
channel_index(m, channel) ==
    IF \E i \in DOMAIN m.channel_idx : m.channel_idx[i] = channel
    THEN CHOOSE i \in DOMAIN m.channel_idx : m.channel_idx[i] = channel
    ELSE 0

\* the buffers after the fill of [from, to) with the active notes
Filled(bufs, t, active, from, to) ==
    [bufs EXCEPT ![t] =
        [c \in DOMAIN bufs[t] |->
            IF c \in DOMAIN active
            THEN [n \in DOMAIN bufs[t][c] |->
                    IF from < n /\ n <= to
                    THEN mix(active, c, n - 1, sample_rate)
                    ELSE bufs[t][c][n]]
            ELSE bufs[t][c]]]

\* the active notes after a channel event is applied
Applied(active, idx, e) ==
    IF e.kind = "NoteOff"
    THEN IF idx \in DOMAIN active
         THEN [active EXCEPT ![idx] = @ \ {e.param1}]
         ELSE active
    ELSE IF e.kind = "NoteOn"
    THEN IF idx \in DOMAIN active
         THEN [active EXCEPT ![idx] = @ \cup {e.param1}]
         ELSE [c \in DOMAIN active \cup {idx} |->
                 IF c = idx THEN {e.param1} ELSE active[c]]
    ELSE active

\* the end of a track's pass: the next track, or the return
NextTrack ==
    /\ track_index' = track_index + 1
    /\ pc' = IF track_index = Len(tracks) THEN "done" ELSE "track"

\* one iteration of the loop over the events of a track
BufferEvent ==
    /\ pc = "event"
    /\ \E sample_delta \in {samples_of(tracks[track_index][event_index].delta_time,
                                       samples_per_tick)} :
       LET e == tracks[track_index][event_index]
           idx == channel_index(meta[track_index], e.channel)
       IN  IF DOMAIN active_notes # {}
              /\ sample_number + sample_delta > buffer_length
           THEN /\ Panic("range end index out of range for slice")
                /\ UNCHANGED <<buffers, fill, active_notes, sample_number,
                               event_index, track_index, samples_per_tick>>
           ELSE /\ buffers' = Filled(buffers, track_index, active_notes,
                                     sample_number, sample_number + sample_delta)
                /\ fill' = [track |-> track_index, from |-> sample_number,
                            to |-> sample_number + sample_delta,
                            notes |-> active_notes]
                /\ IF e.class = "Channel" /\ idx = 0
                   THEN /\ Panic("channel is not part of this track")
                        /\ UNCHANGED <<active_notes, sample_number,
                                       event_index, track_index,
                                       samples_per_tick>>
                   ELSE IF e.kind = "EndOfTrack"
                   THEN /\ NextTrack
                        /\ UNCHANGED <<active_notes, sample_number,
                                       event_index, samples_per_tick,
                                       panicked>>
                   ELSE /\ active_notes' =
                              IF e.class = "Channel"
                              THEN Applied(active_notes, idx, e)
                              ELSE active_notes
                        /\ samples_per_tick' =
                              IF e.kind = "SetTempo"
                              THEN sample_rate
                                   * tick_duration_of(time_division, e.mpqn)
                              ELSE samples_per_tick
                        /\ sample_number' = sample_number + sample_delta
                        /\ event_index' = event_index + 1
                        /\ panicked' = panicked
                        /\ IF event_index = Len(tracks[track_index])
                           THEN NextTrack
                           ELSE UNCHANGED <<pc, track_index>>
    /\ UNCHANGED <<dec_vars_but_pc, runs, reads, wave, sample_rate, meta, buffer_length,
                   tick_duration, time, start_time, played_notes, scheduled>>

BufferNext == MetaNew \/ CreateBuffer \/ BufferTrack \/ BufferEvent

SpecBuffer == BufferInit /\ [][BufferNext]_vars

\* MidiSynth::new alone
SpecMeta == BufferInit /\ [][MetaNew]_vars

\* how often the renderer is run again over the same file
MaxRuns == 1

\* the caller builds a MidiSynth over the same file and renders again with
\* the same sample rate
Rerun ==
    /\ pc = "done"
    /\ Len(runs) < MaxRuns
    /\ runs' = Append(runs, [meta |-> meta, buffer_length |-> buffer_length,
                             buffers |-> buffers])
    /\ pc' = "new"
    /\ meta' = <<>>
    /\ buffer_length' = 0
    /\ buffers' = <<>>
    /\ track_index' = 0
    /\ event_index' = 0
    /\ sample_number' = 0
    /\ samples_per_tick' = 0
    /\ active_notes' = <<>>
    /\ fill' = [track |-> 0, from |-> 0, to |-> 0, notes |-> <<>>]
    /\ UNCHANGED <<dec_vars_but_pc, reads, wave, sample_rate, tick_duration, time,
                   start_time, played_notes, scheduled, panicked>>

RerunNext == BufferNext \/ Rerun

SpecRerun == BufferInit /\ [][RerunNext]_vars

(***************************************************************************)
(* web_audio::MidiSynth::schedule and schedule_note (web_audio.rs 22-161). *)
(* The calls into the audio graph are taken to succeed; what is kept of a  *)
(* scheduled note is the times and velocities passed to the graph.         *)
(***************************************************************************)
\* ctx.current_time() as read at the head of a track, in ns
CurrentTimes == {0, 500000000}

ScheduleInit == RenderInit("schedule")

\* the periodic wave is set up and the loop over the tracks begins
ScheduleStart ==
    /\ pc = "schedule"
    /\ track_index' = 1
    /\ pc' = IF tracks = <<>> THEN "done" ELSE "track"
    /\ UNCHANGED <<dec_vars_but_pc, runs, reads, wave, sample_rate, meta, buffer_length, buffers,
                   event_index, sample_number, tick_duration,
                   samples_per_tick, active_notes, fill, time, start_time,
                   played_notes, scheduled, panicked>>

\* the head of the loop over the tracks
ScheduleTrack ==
    /\ pc = "track"
    /\ IF tick_duration_panics(time_division)
       THEN /\ Panic("divide by zero error when dividing duration by scalar")
            /\ UNCHANGED <<time, start_time, tick_duration, played_notes,
                           event_index>>
       ELSE /\ \E now \in CurrentTimes :
                /\ time' = now
                /\ start_time' = now
            /\ tick_duration' = tick_duration_of(time_division, DefaultTempo)
            /\ played_notes' = <<>>
            /\ event_index' = 1
            /\ pc' = "event"
            /\ panicked' = panicked
    /\ UNCHANGED <<dec_vars_but_pc, runs, reads, wave, sample_rate, meta, buffer_length, buffers,
                   track_index, sample_number, samples_per_tick, active_notes,
                   fill, scheduled>>

\* Duration::from_micros((max_micros as f32 * (1.0 - velocity / 127.0)) as u64):
\* a negative product becomes 0 in the cast
velocity_time(max_micros, velocity) ==
    IF velocity >= 127 THEN 0
    ELSE ((max_micros * (127 - velocity)) \div 127) * 1000

attack_uncapped(on_velocity, duration) == velocity_time(100000, on_velocity)

attack_duration(on_velocity, duration) ==
    Min(velocity_time(100000, on_velocity), duration \div 3)

\* a faulty variant: the release is not capped by the length of the note
release_uncapped(off_velocity, duration) == velocity_time(2000000, off_velocity)

release_duration(off_velocity, duration) ==
    Min(velocity_time(2000000, off_velocity), duration \div 2)

\* what schedule_note hands to the oscillator and the gain node
schedule_note(note, on_velocity, off_velocity, start, duration) ==
    [note |-> note,
     frequency |-> frequency(note),
     on_velocity |-> on_velocity,
     off_velocity |-> off_velocity,
     start_time |-> start,
     end_time |-> start + duration,
     attack_duration |-> attack_duration(on_velocity, duration),
     release_duration |-> release_duration(off_velocity, duration)]

\* a faulty variant: an entry already present is kept
insert_if_absent(played, key, value) ==
    IF key \in DOMAIN played THEN played
    ELSE [k \in DOMAIN played \cup {key} |->
            IF k = key THEN value ELSE played[k]]

\* HashMap::insert
insert_played(played, key, value) ==
    [k \in DOMAIN played \cup {key} |-> IF k = key THEN value ELSE played[k]]

\* a faulty variant: the entry is read and left in the map
remove_keeps(played, key) == played

\* HashMap::remove
remove_played(played, key) == [k \in DOMAIN played \ {key} |-> played[k]]

\* one iteration of the loop over the events of a track
ScheduleEvent ==
    /\ pc = "event"
    /\ LET e == tracks[track_index][event_index]
           now == time + tick_duration * e.delta_time
           key == <<e.channel, e.param1>>
       IN  /\ time' = now
           /\ IF e.kind = "EndOfTrack"
              THEN /\ NextTrack
                   /\ UNCHANGED <<played_notes, scheduled, tick_duration,
                                  event_index>>
              ELSE /\ IF e.kind = "NoteOff" /\ key \in DOMAIN played_notes
                      THEN /\ played_notes' = remove_played(played_notes, key)
                           /\ scheduled' =
                                Append(scheduled,
                                       schedule_note(e.param1,
                                           played_notes[key].on_velocity,
                                           e.param2,
                                           played_notes[key].start_time,
                                           now - played_notes[key].start_time))
                      ELSE IF e.kind = "NoteOn"
                      THEN /\ played_notes' =
                                insert_played(played_notes, key,
                                    [start_time |-> now,
                                     on_velocity |-> e.param2])
                           /\ scheduled' = scheduled
                      ELSE UNCHANGED <<played_notes, scheduled>>
                   /\ tick_duration' =
                        IF e.kind = "SetTempo"
                        THEN tick_duration_of(time_division, e.mpqn)
                        ELSE tick_duration
                   /\ event_index' = event_index + 1
                   /\ IF event_index = Len(tracks[track_index])
                      THEN NextTrack
                      ELSE UNCHANGED <<pc, track_index>>
    /\ UNCHANGED <<dec_vars_but_pc, runs, reads, wave, sample_rate, meta, buffer_length, buffers,
                   sample_number, samples_per_tick, active_notes, fill,
                   start_time, panicked>>

ScheduleNext == ScheduleStart \/ ScheduleTrack \/ ScheduleEvent

SpecSchedule == ScheduleInit /\ [][ScheduleNext]_vars

(***************************************************************************)
(* Either renderer over a decoded file, as lib.rs picks one of the two: the *)
(* synthesizer of synth.rs owns the metadata of the file, the one of        *)
(* web_audio.rs owns the file alone.                                        *)
(***************************************************************************)
\* the renderer at work is the one that builds buffers
RawSynth == pc \in {"new", "create"} \/ meta # <<>>

\* a note and two tempo changes
TempoEvents ==
    UNION {{NoteOn(d, 0, 9, 100), NoteOff(d, 0, 9, 64), SetTempo(d, 250000),
            SetTempo(d, 125000)} : d \in Deltas}

RECURSIVE TempoRuns(_)
\* the sequences of at most n of these events
TempoRuns(n) ==
    IF n = 0 THEN {<<>>}
    ELSE TempoRuns(n - 1)
         \cup {r \o <<e>> : r \in TempoRuns(n - 1), e \in TempoEvents}

\* files of one or two tracks, with 40 ticks per quarter note or 25 frames
\* per second and 40 ticks per frame
PassFiles ==
    {<<parse_time_division(w).value, <<r \o <<EndOfTrack(d)>>>> \o l>> :
        w \in {40, 32768 + 25 * 256 + 40},
        r \in TempoRuns(MaxEvents), d \in Deltas,
        l \in {<<>>} \cup {<<x>> : x \in LaterTracks}}

PassesInit == RenderInitOver("new", PassFiles) \/ RenderInitOver("schedule", PassFiles)

PassesNext == (RawSynth /\ BufferNext) \/ (~RawSynth /\ ScheduleNext)

SpecPasses == PassesInit /\ [][PassesNext]_vars

(***************************************************************************)
(* Waveforms and their Fourier terms (wave.rs).  A coefficient is kept as  *)
(* the exact fraction <<numerator, denominator>> that multiplies 1/pi      *)
(* (square, sawtooth), 1/pi^2 (triangle) or 1 (sine, custom).              *)
(***************************************************************************)
\* the length of the REAL and IMAG arrays of the overtone-rich waveforms
OscillatorTerms == 4000

MaxTerms == 3

\* [0.0; N]
Zeros(n) == [k \in 1..n |-> <<0, 1>>]

SineWave_decompose == << <<<<0, 1>>, <<0, 1>>>>, <<<<0, 1>>, <<1, 1>>>> >>

\* arr[0] = 0.0; arr[k] = (2.0 / (k * PI)) * (k % 2 * 2)
SquareWave_decompose ==
    << Zeros(OscillatorTerms),
       [i \in 1..OscillatorTerms |->
           IF i = 1 THEN <<0, 1>>
           ELSE <<2 * (((i - 1) % 2) * 2), i - 1>>] >>

\* arr[0] = 0.0; arr[k] = (1.0 - ((k + 1) % 2 * 2)) * (2.0 / (k * PI))
SawtoothWave_decompose ==
    << Zeros(OscillatorTerms),
       [i \in 1..OscillatorTerms |->
           IF i = 1 THEN <<0, 1>>
           ELSE <<(1 - ((i % 2) * 2)) * 2, i - 1>>] >>

\* sin(k * PI / 2)
QuarterSine(k) == CASE k % 4 = 1 -> 1 [] k % 4 = 3 -> -1 [] OTHER -> 0

\* arr[0] = 0.0; arr[k] = 8.0 * sin(k * PI / 2) / ((k * PI) * (k * PI))
TriangleWave_decompose ==
    << Zeros(OscillatorTerms),
       [i \in 1..OscillatorTerms |->
           IF i = 1 THEN <<0, 1>>
           ELSE <<8 * QuarterSine(i - 1), (i - 1) * (i - 1)>>] >>

BuiltInWaves == {"Sine", "Square", "Sawtooth", "Triangle"}

\* the arrays a caller may hand to CustomWave::new
CustomArrays ==
    UNION {[1..n -> {<<0, 1>>, <<1, 1>>}] : n \in 0..MaxTerms}

\* a faulty variant: the constructor takes any two arrays
custom_new_unchecked(real, imag) == TRUE

\* assert!(real.len() == imag.len())
custom_new_assert(real, imag) == Len(real) = Len(imag)

\* Wave::decompose of the waveform w
decompose(w) ==
    CASE w.kind = "Sine" -> SineWave_decompose
      [] w.kind = "Square" -> SquareWave_decompose
      [] w.kind = "Sawtooth" -> SawtoothWave_decompose
      [] w.kind = "Triangle" -> TriangleWave_decompose
      [] OTHER -> <<w.real, w.imag>>

WaveInit ==
    /\ DecodeIdle
    /\ RenderIdle
    /\ num_tracks = 0
    /\ time_division = NoTimeDivision
    /\ tracks = <<>>
    /\ reads = <<>>
    /\ pc = "wave_new"
    /\ \/ \E kind \in BuiltInWaves :
              wave = [NoWave EXCEPT !.kind = kind]
       \/ \E real \in CustomArrays, imag \in CustomArrays :
              wave = [NoWave EXCEPT !.kind = "Custom", !.real = real,
                                    !.imag = imag]

\* what a waveform never writes
wave_frame == <<dec_vars_but_pc, reads, sample_rate, meta, buffer_length,
                buffers, track_index, event_index, sample_number,
                tick_duration, samples_per_tick, active_notes, fill, time,
                start_time, played_notes, scheduled, runs>>

\* the unit structs SineWave .. TriangleWave, and CustomWave::new
WaveNew ==
    /\ pc = "wave_new"
    /\ IF wave.kind = "Custom" /\ ~custom_new_assert(wave.real, wave.imag)
       THEN /\ Panic("assertion failed: real.len() == imag.len()")
            /\ UNCHANGED wave
       ELSE /\ wave' = [wave EXCEPT !.built = TRUE]
            /\ pc' = "decompose"
            /\ UNCHANGED panicked
    /\ UNCHANGED wave_frame

\* let (real, imag) = wave.decompose()
Decompose ==
    /\ pc = "decompose"
    /\ wave' = [wave EXCEPT !.terms = decompose(wave)]
    /\ pc' = "done"
    /\ UNCHANGED <<wave_frame, panicked>>

WaveNext == WaveNew \/ Decompose

SpecWave == WaveInit /\ [][WaveNext]_vars


(***************************************************************************)
(* Claims about the decoder, checked under SpecDecode.                     *)
(***************************************************************************)
\* the format type the header declares, once magic and length were accepted
HeaderAccepted ==
    /\ Len(buffer) >= 10
    /\ SubSeq(buffer, 1, 4) = MIDI_HEADER_CHUNK
    /\ SubSeq(buffer, 5, 8) = U32(6)

DeclaredFormat == buffer[9] * 256 + buffer[10]

\* C1: a header declaring format type 0 or 1 never fails with
\* UnsupportedType, and every other format type is rejected with
\* UnsupportedType and yields no FileModel.
C1_FormatTypesZeroAndOne ==
    (pc # "header" /\ HeaderAccepted) =>
        /\ DeclaredFormat \in {0, 1} => err # Error("UnsupportedType")
        /\ DeclaredFormat \notin {0, 1} =>
              (err = Error("UnsupportedType") /\ pc = "error")

\* C6: every decoded event, meta events included, carries the delta time
\* that was read in front of its status byte.
C6_EveryEventCarriesItsDelta ==
    \A i \in 1..Len(events) :
        /\ "delta_time" \in DOMAIN events[i]
        /\ events[i].delta_time = read_deltas[i]

\* C7: every decoded track holds exactly one EndOfTrack and it is the last
\* event; a chunk that runs out before an EndOfTrack makes decode fail
\* with no FileModel.
C7_TracksEndAtEndOfTrack ==
    \A t \in 1..Len(tracks) :
        /\ Len(tracks[t]) >= 1
        /\ \A i \in 1..Len(tracks[t]) :
              (tracks[t][i].kind = "EndOfTrack") <=> i = Len(tracks[t])

C7_ExhaustedChunkFails ==
    (pc = "event" /\ left_bytes(track_buffer, track_pointer) = 0) =>
        (pc' = "error" /\ err' # NoError /\ tracks' = tracks)

C7_OneEndOfTrackLast ==
    [](C7_TracksEndAtEndOfTrack /\ (pc = "done" => Len(tracks) = num_tracks))
    /\ [][C7_ExhaustedChunkFails]_vars

\* C7 witness: a first track of at least two events was decoded and the
\* second chunk ran out after an event without any EndOfTrack.
C7_Witness ==
    /\ pc = "error"
    /\ err = Error("InvalidEvent")
    /\ Len(tracks) = 1
    /\ Len(tracks[1]) >= 2
    /\ Len(events) >= 1
    /\ left_bytes(track_buffer, track_pointer) = 0

(***************************************************************************)
(* Claims about create_buffer, checked under SpecBuffer.                   *)
(***************************************************************************)
\* C2: once decode has succeeded, metadata extraction and create_buffer
\* run to completion: no call panics.
C2_RenderingNeverPanics == panicked = ""

\* C3: every sample written by a fill is the mean of the wave values of
\* the active notes of its own channel, and 0 where it has none.
C3_SamplesAreChannelMean ==
    fill.track # 0 =>
        \A c \in DOMAIN buffers[fill.track] :
            \A n \in (fill.from + 1)..fill.to :
                LET notes == IF c \in DOMAIN fill.notes THEN fill.notes[c]
                             ELSE {}
                    sample == buffers[fill.track][c][n]
                IN  IF notes = {} THEN sample = 0
                    ELSE sample * Cardinality(notes)
                            = SumOver(notes, n - 1, sample_rate)

\* C4: every value of every buffer lies in [-1, 1].
C4_SamplesWithinUnitRange ==
    \A t \in DOMAIN buffers :
        \A c \in DOMAIN buffers[t] :
            \A n \in DOMAIN buffers[t][c] :
                -One <= buffers[t][c][n] /\ buffers[t][c][n] <= One

\* n * x / 10^9 is a whole number (x in billionths)
WholeSecs(n, x) ==
    /\ (n * (x % 1000)) % 1000 = 0
    /\ (n * (x \div 1000) + (n * (x % 1000)) \div 1000) % 1000000 = 0

CeilSecs(n, x) == IF WholeSecs(n, x) THEN MulSecs(n, x) ELSE MulSecs(n, x) + 1

\* C5: buffer_length = ceil(sample_rate * total_duration), and 0 for a file
\* without tracks.
C5_BufferLengthIsCeiling ==
    pc \in {"track", "event", "done"} =>
        /\ buffer_length = CeilSecs(sample_rate, total_duration(meta))
        /\ tracks = <<>> => buffer_length = 0

(***************************************************************************)
(* Claims about the scheduler, checked under SpecSchedule.                 *)
(***************************************************************************)
IsOn(e, key) == e.kind = "NoteOn" /\ <<e.channel, e.param1>> = key

IsOff(e, key) == e.kind = "NoteOff" /\ <<e.channel, e.param1>> = key

KeysOf(evs) ==
    {<<evs[i].channel, evs[i].param1>> :
        i \in {i \in DOMAIN evs : evs[i].kind \in {"NoteOn", "NoteOff"}}}

\* after the first k events a NoteOn for the key is not yet released
PendingAt(evs, k, key) ==
    \E i \in 1..k : /\ IsOn(evs[i], key)
                    /\ \A j \in (i + 1)..k : ~IsOff(evs[j], key)

\* event k is a NoteOff that finds its key pending
Matched(evs, k) ==
    /\ evs[k].kind = "NoteOff"
    /\ PendingAt(evs, k - 1, <<evs[k].channel, evs[k].param1>>)

\* the events of a track the scheduler gets to: up to the first EndOfTrack
ProcessedLen(evs) ==
    LET S == {i \in DOMAIN evs : evs[i].kind = "EndOfTrack"}
    IN  IF S = {} THEN Len(evs) ELSE CHOOSE i \in S : \A j \in S : i <= j

RECURSIVE ReleasesUpTo(_, _)
\* note and off-velocity of the matched NoteOffs among the first k events
ReleasesUpTo(evs, k) ==
    IF k = 0 THEN <<>>
    ELSE IF Matched(evs, k)
    THEN Append(ReleasesUpTo(evs, k - 1), <<evs[k].param1, evs[k].param2>>)
    ELSE ReleasesUpTo(evs, k - 1)

RECURSIVE ReleasesOfTracks(_)
ReleasesOfTracks(n) ==
    IF n = 0 THEN <<>>
    ELSE ReleasesOfTracks(n - 1)
         \o ReleasesUpTo(tracks[n], ProcessedLen(tracks[n]))

\* the matched NoteOffs the scheduler has passed so far
ReleasesSoFar ==
    IF pc = "event"
    THEN ReleasesOfTracks(track_index - 1)
         \o ReleasesUpTo(tracks[track_index], event_index - 1)
    ELSE IF pc \in {"track", "done"} THEN ReleasesOfTracks(track_index - 1)
    ELSE <<>>

C8_DescriptorsAreMatchedReleases ==
    /\ [i \in DOMAIN scheduled |->
            <<scheduled[i].note, scheduled[i].off_velocity>>] = ReleasesSoFar
    /\ pc = "event" =>
         DOMAIN played_notes =
            {key \in KeysOf(tracks[track_index]) :
                PendingAt(tracks[track_index], event_index - 1, key)}

C8_OrphanAndEndOfTrackEmitNothing ==
    pc = "event" =>
        LET evs == tracks[track_index]
            e == evs[event_index]
        IN  /\ (e.kind = "NoteOff" /\ ~Matched(evs, event_index)) =>
                  /\ played_notes' = played_notes
                  /\ scheduled' = scheduled
            /\ Matched(evs, event_index) =>
                  /\ Len(scheduled') = Len(scheduled) + 1
                  /\ <<e.channel, e.param1>> \notin DOMAIN played_notes'
            /\ e.kind = "EndOfTrack" => scheduled' = scheduled

\* C8: the descriptors emitted are, in order, exactly the NoteOffs that find
\* their (channel, note) key pending; a NoteOff that finds nothing changes
\* neither the pending map nor the output, a matched one removes its entry,
\* and EndOfTrack emits nothing for the entries still pending.
C8_OneDescriptorPerMatchedNoteOff ==
    /\ []C8_DescriptorsAreMatchedReleases
    /\ [][C8_OrphanAndEndOfTrackEmitNothing]_vars

\* ReleaseTrack is done: one descriptor, for the one matched release, although
\* one NoteOff found nothing and one note was still held at EndOfTrack
C8_Witness ==
    /\ pc = "done"
    /\ tracks = <<ReleaseTrack>>
    /\ Len(scheduled) = 1
    /\ scheduled[1].note = 9

\* the tempo in force when event m is reached
TempoAt(evs, m) ==
    LET S == {i \in 1..(m - 1) : evs[i].kind = "SetTempo"}
    IN  IF S = {} THEN DefaultTempo
        ELSE evs[CHOOSE i \in S : \A j \in S : j <= i].mpqn

RECURSIVE ElapsedAt(_, _)
\* the time from the head of the track to event j
ElapsedAt(evs, j) ==
    IF j = 0 THEN 0
    ELSE ElapsedAt(evs, j - 1)
         + tick_duration_of(time_division, TempoAt(evs, j)) * evs[j].delta_time

\* the most recent NoteOn for the key before event k
LatestOn(evs, k, key) ==
    CHOOSE i \in 1..(k - 1) :
        /\ IsOn(evs[i], key)
        /\ \A j \in (i + 1)..(k - 1) : ~IsOn(evs[j], key)

C9_ReleaseUsesLatestNoteOn ==
    (pc = "event" /\ Matched(tracks[track_index], event_index)) =>
        LET evs == tracks[track_index]
            e == evs[event_index]
            on == LatestOn(evs, event_index, <<e.channel, e.param1>>)
            d == scheduled'[Len(scheduled')]
        IN  /\ Len(scheduled') = Len(scheduled) + 1
            /\ d.start_time = start_time + ElapsedAt(evs, on)
            /\ d.on_velocity = evs[on].param2

\* C9: the descriptor a matched NoteOff emits starts at the time, and carries
\* the velocity, of the most recent NoteOn for its key, also when an earlier
\* NoteOn for the key was never released; with C8's count, the earlier
\* NoteOn yields no descriptor of its own.
C9_SecondNoteOnOverwritesFirst == [][C9_ReleaseUsesLatestNoteOn]_vars

\* two NoteOns for (0, 9) at different times and velocities, then a NoteOff:
\* the one descriptor is the second NoteOn's
C9_Witness ==
    /\ pc = "done"
    /\ Len(tracks) = 1
    /\ Len(tracks[1]) = 4
    /\ tracks[1][1] = NoteOn(0, 0, 9, 100)
    /\ tracks[1][2] = NoteOn(2, 0, 9, 50)
    /\ tracks[1][3] = NoteOff(2, 0, 9, 64)
    /\ Len(scheduled) = 1
    /\ scheduled[1].on_velocity = 50
    /\ scheduled[1].start_time > start_time

C10_EnvelopeWithinNote ==
    \A i \in DOMAIN scheduled :
        LET d == scheduled[i]
            noteDuration == d.end_time - d.start_time
        IN  /\ noteDuration >= 0
            /\ d.attack_duration >= 0
            /\ d.release_duration >= 0
            /\ 3 * d.attack_duration <= noteDuration
            /\ 2 * d.release_duration <= noteDuration

C10_ZeroLengthNote ==
    (/\ pc = "event"
     /\ event_index > 1
     /\ tracks[track_index][event_index].kind = "NoteOff"
     /\ tracks[track_index][event_index].delta_time = 0
     /\ IsOn(tracks[track_index][event_index - 1],
             <<tracks[track_index][event_index].channel,
               tracks[track_index][event_index].param1>>)) =>
        LET d == scheduled'[Len(scheduled')]
        IN  /\ Len(scheduled') = Len(scheduled) + 1
            /\ d.end_time = d.start_time
            /\ d.attack_duration = 0
            /\ d.release_duration = 0

\* C10: in every scheduled note the attack is at most a third and the release
\* at most half of the time from start to stop; a NoteOff zero ticks after its
\* NoteOn schedules a note that stops when it starts, with no attack and no
\* release.
C10_AttackAndReleaseCapped ==
    /\ []C10_EnvelopeWithinNote
    /\ [][C10_ZeroLengthNote]_vars

\* a NoteOff zero ticks after its NoteOn has been scheduled, and so has a note
\* two ticks long whose attack the cap shortened
C10_Witness ==
    /\ pc = "done"
    /\ \E i \in DOMAIN scheduled :
          /\ scheduled[i].end_time = scheduled[i].start_time
          /\ scheduled[i].attack_duration = 0
          /\ scheduled[i].release_duration = 0
    /\ \E i \in DOMAIN scheduled :
          /\ scheduled[i].end_time > scheduled[i].start_time
          /\ scheduled[i].attack_duration
                = (scheduled[i].end_time - scheduled[i].start_time) \div 3
          /\ scheduled[i].attack_duration
                < velocity_time(100000, scheduled[i].on_velocity)

(***************************************************************************)
(* Claims about the metadata, checked under SpecBuffer.                    *)
(***************************************************************************)
RECURSIVE FirstChannels(_, _)
\* the distinct channels of the first k events, in order of first appearance
FirstChannels(evs, k) ==
    IF k = 0 THEN <<>>
    ELSE LET r == FirstChannels(evs, k - 1)
         IN  IF /\ evs[k].class = "Channel"
                /\ \A i \in DOMAIN r : r[i] # evs[k].channel
             THEN Append(r, evs[k].channel)
             ELSE r

\* C11: the channel index of every track lists the distinct channels of the
\* track's channel events in the order in which the forward pass first meets
\* them.
C11_ChannelIndexInFirstAppearanceOrder ==
    \A t \in DOMAIN meta :
        meta[t].channel_idx
            = FirstChannels(tracks[t], ProcessedLen(tracks[t]))

\* C12: a second run over the same file and sample rate gives every track
\* the channel index the first run gave it, and returns the same buffers.
C12_RunsAgree ==
    \A i \in DOMAIN runs :
        /\ pc \in {"create", "track", "event", "done"} =>
              \A t \in DOMAIN meta :
                  meta[t].channel_idx = runs[i].meta[t].channel_idx
        /\ pc = "done" => /\ buffer_length = runs[i].buffer_length
                          /\ buffers = runs[i].buffers

(***************************************************************************)
(* Claims about the file header, checked under SpecDecode.                 *)
(***************************************************************************)
\* the buffer does not begin with "MThd"
BadMagic ==
    \/ Len(buffer) < 4
    \/ SubSeq(buffer, 1, 4) # <<77, 84, 104, 100>>

\* "MThd" is followed by a length field that is not 6
BadHeaderLength ==
    /\ ~BadMagic
    /\ Len(buffer) >= 8
    /\ SubSeq(buffer, 5, 8) # <<0, 0, 0, 6>>

\* decode has failed before any track chunk was opened
NothingDecoded ==
    /\ pc = "error"
    /\ tracks = <<>>
    /\ track_buffer = <<>>
    /\ events = <<>>

\* C13: once the header is parsed, a buffer not beginning with "MThd" (a
\* buffer under four bytes included) has failed with HeaderMismatch and a
\* length field other than 6 with HeaderSizeMismatch; either way there is no
\* file model, and no track was parsed.
C13_HeaderErrors ==
    pc # "header" =>
        /\ BadMagic => (err = Error("HeaderMismatch") /\ NothingDecoded)
        /\ BadHeaderLength =>
              (err = Error("HeaderSizeMismatch") /\ NothingDecoded)

\* "XThd" in front of a well-formed file has been refused
C13_Witness ==
    /\ Len(buffer) > 14
    /\ SubSeq(buffer, 1, 4) = <<88, 84, 104, 100>>
    /\ err = Error("HeaderMismatch")
    /\ pc = "error"

(***************************************************************************)
(* Claims about the reader, checked under SpecReader.                      *)
(***************************************************************************)
\* the bytes of s stand in the buffer from position p on
StandsAt(s, p) ==
    /\ p + Len(s) <= Len(buffer)
    /\ SubSeq(buffer, p + 1, p + Len(s)) = s

\* C14: read_var_length, called where the variable-length encoding of a
\* value v < 2^28 stands, returns v and leaves the cursor just behind the
\* encoding.
C14_VarLengthRoundTrip ==
    \A i \in DOMAIN reads :
        reads[i].op = "read_var_length" =>
            \A v \in VarValues :
                StandsAt(EncodeVarLength(v), reads[i].before) =>
                    /\ reads[i].result.ok
                    /\ reads[i].result.value = v
                    /\ reads[i].result.pointer
                          = reads[i].before + Len(EncodeVarLength(v))

\* the four-byte encoding of 2^28 - 1 has been read from the start of a buffer
\* that goes on behind it
C14_Witness ==
    /\ buffer = <<255, 255, 255, 127, 129>>
    /\ Len(reads) = 1
    /\ reads[1].op = "read_var_length"
    /\ reads[1].result.value = 268435455
    /\ pointer = 4

\* C15: a read_var_length that runs out of bytes leaves the cursor where it
\* was before the call.
C15_FailedVarLengthKeepsPosition ==
    \A i \in DOMAIN reads :
        (reads[i].op = "read_var_length" /\ ~reads[i].result.ok) =>
            reads[i].result.pointer = reads[i].before

FixedOps == {"read_u8", "read_u16", "read_u32", "read_range"}

RECURSIVE Consumed(_)
\* the bytes the successful calls among the first k asked for
Consumed(k) ==
    IF k = 0 THEN 0
    ELSE Consumed(k - 1) + (IF reads[k].result.ok THEN reads[k].n ELSE 0)

\* C16: the cursor never passes the end of the buffer; of the calls read_u8,
\* read_u16, read_u32 and read_range, one that asks for more than is left
\* returns None and moves nothing, and one that asks for no more than is
\* left succeeds, so that in a sequence of such calls each successful one
\* starts where the last successful one ended.
C16_PositionWithinBuffer ==
    /\ pointer <= Len(buffer)
    /\ \A i \in DOMAIN reads :
          reads[i].op \in FixedOps =>
              /\ reads[i].result.ok
                    <=> (reads[i].n <= Len(buffer) - reads[i].before)
              /\ reads[i].result.pointer
                    = reads[i].before
                      + (IF reads[i].result.ok THEN reads[i].n ELSE 0)
              /\ (reads[i].op = "read_range" /\ reads[i].result.ok) =>
                    reads[i].result.value
                        = SubSeq(buffer, reads[i].before + 1,
                                 reads[i].before + reads[i].n)
    /\ (\A i \in DOMAIN reads : reads[i].op \in FixedOps) =>
          /\ \A i \in DOMAIN reads : reads[i].before = Consumed(i - 1)
          /\ pointer = Consumed(Len(reads))

\* a read_range of 3 served, a second one refused with one byte left, and
\* a read_range of 1 then served with the byte behind the first three
C16_Witness ==
    /\ Len(buffer) = 4
    /\ Len(reads) = 3
    /\ \A i \in 1..3 : reads[i].op = "read_range"
    /\ reads[1].n = 3 /\ reads[1].result.ok
    /\ reads[2].n = 3 /\ ~reads[2].result.ok
    /\ reads[3].n = 1 /\ reads[3].result.ok
    /\ reads[3].result.value = <<buffer[4]>>
    /\ pointer = 4

RECURSIVE BigEndian(_)
\* the number a byte string denotes, first byte most significant
BigEndian(bytes) ==
    IF bytes = <<>> THEN 0
    ELSE BigEndian(SubSeq(bytes, 1, Len(bytes) - 1)) * 256 + bytes[Len(bytes)]

\* the bytes from position p + a up to p + b
BytesAt(p, a, b) == SubSeq(buffer, p + a, p + b)

\* C17: a successful read_u8, read_u16 or read_u32 returns the big-endian
\* value of the next 1, 2 or 4 bytes and moves the cursor by as many; one
\* successful read directly after another starts where the other ended.  A
\* u32 is compared half by half.
C17_BigEndianReads ==
    /\ \A i \in DOMAIN reads :
          LET c == reads[i]
          IN  (c.op \in {"read_u8", "read_u16", "read_u32"} /\ c.result.ok) =>
                  /\ c.n = (IF c.op = "read_u8" THEN 1
                            ELSE IF c.op = "read_u16" THEN 2 ELSE 4)
                  /\ c.result.pointer = c.before + c.n
                  /\ c.op # "read_u32" =>
                        c.result.value = BigEndian(BytesAt(c.before, 1, c.n))
                  /\ c.op = "read_u32" =>
                        /\ c.result.hi = BigEndian(BytesAt(c.before, 1, 2))
                        /\ c.result.lo = BigEndian(BytesAt(c.before, 3, 4))
                        /\ c.result.hi < 32768 =>
                              c.result.value
                                  = BigEndian(BytesAt(c.before, 1, 4))
    /\ \A i \in DOMAIN reads :
          (i > 1 /\ reads[i - 1].result.ok) =>
              reads[i].before = reads[i - 1].result.pointer

\* 0xFFEE and then 0x0DCC read as u16 from FF EE 0D CC BB, then 0xBB as u8
C17_Witness ==
    /\ buffer = HighBytes
    /\ Len(reads) = 3
    /\ reads[1].op = "read_u16" /\ reads[1].result.value = 65518
    /\ reads[2].op = "read_u16" /\ reads[2].result.value = 3532
    /\ reads[3].op = "read_u8" /\ reads[3].result.value = 187
    /\ pointer = 5

(***************************************************************************)
(* Claims about the events of a track, checked under SpecDecode.           *)
(***************************************************************************)
RECURSIVE DeltaEnd(_, _)
\* where the delta time that begins behind position p ends: behind its first
\* byte with the top bit clear (0 when the chunk ends before)
DeltaEnd(buf, p) ==
    IF p >= Len(buf) THEN 0
    ELSE IF buf[p + 1] < 128 THEN p + 1
    ELSE DeltaEnd(buf, p + 1)

\* the position of the status byte of the event about to be read, or 0
StatusAt ==
    LET q == DeltaEnd(track_buffer, track_pointer)
    IN  IF q = 0 \/ q >= Len(track_buffer) THEN 0 ELSE q + 1

\* the event about to be read is a meta event of a type with a fixed length,
\* and its length byte is there
FixedMetaNext ==
    /\ pc = "event"
    /\ StatusAt # 0
    /\ track_buffer[StatusAt] = 255
    /\ StatusAt + 2 <= Len(track_buffer)
    /\ track_buffer[StatusAt + 1] \in {0, 32, 47, 81, 84}
    /\ track_buffer[StatusAt + 2] < 128

C18_FixedMetaStep ==
    FixedMetaNext =>
        LET type == track_buffer[StatusAt + 1]
            length == track_buffer[StatusAt + 2]
            mandated == CASE type = 0 -> 2 [] type = 32 -> 1 [] type = 47 -> 0
                          [] type = 81 -> 3 [] type = 84 -> 5
            name == CASE type = 0 -> "SequenceNumber"
                      [] type = 32 -> "ChannelPrefix"
                      [] type = 47 -> "EndOfTrack"
                      [] type = 81 -> "SetTempo"
                      [] type = 84 -> "SMPTEOffset"
        IN  IF length # mandated
            THEN /\ err' = <<"UnexpectedMetaLength", type, length>>
                 /\ pc' = "error"
                 /\ events' = events
                 /\ tracks' = tracks
            ELSE (StatusAt + 2 + mandated <= Len(track_buffer)) =>
                 /\ err' = NoError
                 /\ pc' # "error"
                 /\ track_pointer' = StatusAt + 2 + mandated
                 /\ Len(events') = Len(events) + 1
                 /\ events'[Len(events')].kind = name
                 /\ events'[Len(events')].data
                       = SubSeq(track_buffer, StatusAt + 3,
                                StatusAt + 2 + mandated)

\* C18: a SequenceNumber, ChannelPrefix, EndOfTrack, SetTempo or SMPTEOffset
\* whose declared length is not 2, 1, 0, 3, 5 fails the decode with
\* UnexpectedMetaLength of the type and length read, appends no event and
\* leaves no file model (the error state has no successor); with the
\* mandated length the event is appended and the cursor stands exactly that
\* many bytes behind the length byte.
C18_FixedMetaLengths ==
    /\ [][C18_FixedMetaStep]_vars
    /\ [](pc = "error" => [](pc = "error"))

\* a SMPTEOffset of 5 bytes was taken, then a SetTempo declaring 2 refused
C18_Witness ==
    /\ pc = "error"
    /\ err = <<"UnexpectedMetaLength", 81, 2>>
    /\ Len(events) = 1
    /\ events[1].kind = "SMPTEOffset"
    /\ track_pointer = 9

\* the status byte of the event about to be read
StatusNext == track_buffer[StatusAt]

C19_DispatchStep ==
    (pc = "event" /\ StatusAt # 0) =>
        LET nibble == StatusNext \div 16
            appended == events'[Len(events')]
            kind == CASE nibble = 8 -> "NoteOff" [] nibble = 9 -> "NoteOn"
                      [] nibble = 10 -> "NoteAftertouch"
                      [] nibble = 11 -> "Controller"
                      [] nibble = 12 -> "ProgramChange"
                      [] nibble = 13 -> "ChannelAftertouch"
                      [] nibble = 14 -> "PitchBend"
        IN  /\ StatusNext = 255 =>
                \/ /\ Len(events') = Len(events) + 1
                   /\ appended.class = "Meta"
                \/ /\ events' = events
                   /\ \/ err' = Error("InvalidMetaEvent")
                      \/ err'[1] = "UnexpectedMetaLength"
            /\ StatusNext = 240 =>
                /\ err' = Error("UnsupportedEvent")
                /\ pc' = "error"
                /\ events' = events
            /\ (StatusNext \notin {240, 255}
                /\ StatusAt + 2 <= Len(track_buffer)) =>
                IF nibble \in 8..14
                THEN /\ err' = NoError
                     /\ Len(events') = Len(events) + 1
                     /\ appended.class = "Channel"
                     /\ appended.kind = kind
                     /\ appended.channel = StatusNext % 16
                     /\ appended.param1 = track_buffer[StatusAt + 1]
                     /\ appended.param2 = track_buffer[StatusAt + 2]
                     /\ track_pointer' = StatusAt + 2
                ELSE /\ err' = Error("InvalidTrackEventType")
                     /\ pc' = "error"
                     /\ events' = events

\* C19: behind the delta time, status 0xFF gives a meta event (or a meta
\* event's error), 0xF0 fails with UnsupportedEvent, and any other status
\* followed by two data bytes gives the channel event its high nibble selects,
\* on the channel of its low nibble, with the cursor behind the two bytes;
\* a high nibble outside 8..14 fails with InvalidTrackEventType.
C19_StatusByteDispatch == [][C19_DispatchStep]_vars

\* a Controller on channel 15 was taken, then status 0x70 refused
C19_Witness ==
    /\ pc = "error"
    /\ err = Error("InvalidTrackEventType")
    /\ Len(events) = 1
    /\ events[1].kind = "Controller"
    /\ events[1].channel = 15
    /\ track_buffer[6] = 112

\* the time-division word of a header that is sound up to it
DivisionWord == buffer[13] * 256 + buffer[14]

DivisionReached ==
    /\ pc # "header"
    /\ Len(buffer) >= 14
    /\ SubSeq(buffer, 1, 10) = <<77, 84, 104, 100, 0, 0, 0, 6, 0, 0>>

\* C20: a word with the top bit 0 is its low 15 bits as ticks per quarter
\* note; with the top bit 1 it is 24, 25, 29.97 or 30 frames per second for
\* 24, 25, 29 or 30 in bits 14-8, with bits 7-0 as ticks per frame; any
\* other value in bits 14-8 fails with InvalidSMPTEValue.
C20_TimeDivisionParsed ==
    DivisionReached =>
        LET w == DivisionWord
            code == (w % 32768) \div 256
            rate == CASE code = 24 -> 2400 [] code = 25 -> 2500
                      [] code = 29 -> 2997 [] code = 30 -> 3000
        IN  IF w < 32768
            THEN /\ time_division = [mode |-> "TicksPerBit", ticks |-> w]
                 /\ err # Error("InvalidSMPTEValue")
            ELSE IF code \in {24, 25, 29, 30}
            THEN /\ time_division.mode = "FramesPerSecond"
                 /\ SMPTEFps[time_division.smpte] = rate
                 /\ time_division.ticks = w % 256
                 /\ err # Error("InvalidSMPTEValue")
            ELSE /\ err = Error("InvalidSMPTEValue")
                 /\ pc = "error"
                 /\ time_division = NoTimeDivision

\* the word 0x9D28 was parsed: 29.97 frames per second, 40 ticks per frame
C20_Witness ==
    /\ DivisionReached
    /\ DivisionWord = 32768 + 29 * 256 + 40
    /\ time_division
          = [mode |-> "FramesPerSecond", smpte |-> "_29_97", ticks |-> 40]
    /\ pc # "error"

(***************************************************************************)
(* Claims about the waveforms, checked under SpecWave.                     *)
(***************************************************************************)
\* C21: the two arrays decompose() returns have the same length, for each
\* built-in waveform and for every Custom waveform, and a Custom waveform
\* exists only for arrays of the same length.
C21_SameLength ==
    /\ wave.terms # <<>> => Len(wave.terms[1]) = Len(wave.terms[2])
    /\ (wave.kind = "Custom" /\ wave.built) => Len(wave.real) = Len(wave.imag)

\* the triangle wave was decomposed into two arrays of 4000 terms
C21_Witness ==
    /\ pc = "done"
    /\ wave.kind = "Triangle"
    /\ Len(wave.terms[1]) = 4000
    /\ Len(wave.terms[2]) = 4000
    /\ wave.terms[2][4] = <<-8, 9>>


(***************************************************************************)
(* Claims about numbers, checked under SpecReader and SpecBuffer.          *)
(***************************************************************************)
\* the four bytes at position p all carry the continuation bit
FourContinuationBytes(p) ==
    /\ p + 4 <= Len(buffer)
    /\ \A k \in 1..4 : buffer[p + k] >= 128

\* the low seven bits of the four bytes at p, most significant first
Accumulated28(p) ==
    (buffer[p + 1] % 128) * Pow2(21) + (buffer[p + 2] % 128) * Pow2(14)
    + (buffer[p + 3] % 128) * Pow2(7) + (buffer[p + 4] % 128)

\* C22: read_var_length on four bytes that all carry the continuation bit
\* takes exactly those four bytes, returns a value, and the value is the
\* 28-bit number made of the low seven bits of the four bytes.
C22_FourContinuationBytes ==
    \A i \in DOMAIN reads :
        (reads[i].op = "read_var_length"
         /\ FourContinuationBytes(reads[i].before)) =>
            /\ reads[i].result.ok
            /\ reads[i].result.pointer = reads[i].before + 4
            /\ reads[i].result.value = Accumulated28(reads[i].before)


\* n * x / 10^9 to the nearest integer, halves upwards, for x in billionths
RoundSecs(n, x) == (MulSecs(2 * n, x) + 1) \div 2

\* an iteration of the event loop of create_buffer that did not panic
C23_Step ==
    (pc = "event" /\ panicked' = "") =>
        fill'.to - fill'.from
            = RoundSecs(tracks[track_index][event_index].delta_time,
                        samples_per_tick)

\* C23: the samples create_buffer advances for an event are its delta time
\* multiplied by the samples per tick in effect before the event, rounded to
\* the nearest integer.
C23_SamplesAdvancedRounded == [][C23_Step]_vars


(***************************************************************************)
(* Claims about tempo and durations, checked under SpecMeta, SpecPasses    *)
(* and SpecSchedule.                                                       *)
(***************************************************************************)
\* the place of the first EndOfTrack of a track, or its length without one
FirstEndOfTrack(evs) ==
    LET S == {i \in DOMAIN evs : evs[i].kind = "EndOfTrack"}
    IN  IF S = {} THEN Len(evs)
        ELSE CHOOSE i \in S : \A j \in S : i <= j

\* C24: the duration of a track is the sum, over its events up to and
\* including the first EndOfTrack, of the delta time multiplied by the tick
\* duration in force before the event; a SetTempo counts with the old tempo.
C24_TrackDuration ==
    meta # <<>> =>
        \A t \in DOMAIN meta :
            meta[t].duration
                = ElapsedAt(tracks[t], FirstEndOfTrack(tracks[t]))

\* a track whose tempo changes two ticks in and that lasts four ticks more:
\* 2 * 12.5 ms + 3 * 3.125 ms
C24_Witness ==
    /\ pc = "create"
    /\ time_division = [mode |-> "TicksPerBit", ticks |-> 40]
    /\ Len(tracks) = 2
    /\ Len(tracks[2]) = 4
    /\ tracks[2][2] = SetTempo(2, 125000)
    /\ meta[2].duration = 34375000


\* the tempo a track has reached at its event m, from 500000 microseconds
\* per quarter note and the SetTempo events of that track alone
OwnTempoAt(evs, m) ==
    LET S == {i \in 1..(m - 1) : evs[i].kind = "SetTempo"}
    IN  IF S = {} THEN 500000
        ELSE evs[CHOOSE i \in S : \A j \in S : j <= i].mpqn

RECURSIVE OwnElapsedAt(_, _)
\* the time from the head of a track to its event j at the track's own tempo
OwnElapsedAt(evs, j) ==
    IF j = 0 THEN 0
    ELSE OwnElapsedAt(evs, j - 1)
         + tick_duration_of(time_division, OwnTempoAt(evs, j))
           * evs[j].delta_time

\* C25: in the metadata pass, in create_buffer and in schedule the tick
\* duration used at an event of a track comes from the default tempo of
\* 500000 and the SetTempo events earlier in the same track, never from a
\* SetTempo of another track.
C25_TempoPerTrack ==
    /\ meta # <<>> =>
          \A t \in DOMAIN meta :
              meta[t].duration
                  = OwnElapsedAt(tracks[t], FirstEndOfTrack(tracks[t]))
    /\ (RawSynth /\ pc = "event") =>
          samples_per_tick
              = sample_rate
                * tick_duration_of(time_division,
                                   OwnTempoAt(tracks[track_index], event_index))
    /\ (~RawSynth /\ pc = "event") =>
          tick_duration
              = tick_duration_of(time_division,
                                 OwnTempoAt(tracks[track_index], event_index))

\* the scheduler stands at the head of a second track, after a first track
\* that changed the tempo, with the tick duration of the default tempo
C25_Witness ==
    /\ ~RawSynth
    /\ pc = "event"
    /\ track_index = 2
    /\ event_index = 1
    /\ \E i \in DOMAIN tracks[1] :
          tracks[1][i].kind = "SetTempo" /\ tracks[1][i].mpqn = 250000
    /\ time_division = [mode |-> "TicksPerBit", ticks |-> 40]
    /\ tick_duration = 12500000


\* floor(10^9 / (p / 100)): the nanoseconds of one second divided by a
\* divisor given in hundredths
SecondOver(p) == (Billion \div p) * 100 + ((Billion % p) * 100) \div p

\* C26: the tick duration is the tempo in microseconds divided by the ticks
\* per quarter note, or one second divided by the exact product of the frame
\* rate (24, 25, 29.97, 30) and the ticks per frame, to within a nanosecond.
C26_TickDuration ==
    (~RawSynth /\ pc = "event") =>
        IF time_division.mode = "TicksPerBit"
        THEN tick_duration
                = (OwnTempoAt(tracks[track_index], event_index) * 1000)
                  \div time_division.ticks
        ELSE LET p == SMPTEFps[time_division.smpte] * time_division.ticks
             IN  tick_duration \in {SecondOver(p), SecondOver(p) + 1}


\* C27: when the scheduler has reached the EndOfTrack of a track, its time
\* less the start time it took from the audio context is the duration the
\* metadata pass computes for that track.
C27_SchedulerMatchesMetadata ==
    (~RawSynth /\ pc \in {"track", "done"} /\ track_index > 1) =>
        time - start_time = TrackMetaOf(tracks[track_index - 1]).duration

\* the scheduler began the second track at 0.5 s and left it 34.375 ms later,
\* past a tempo change
C27_Witness ==
    /\ ~RawSynth
    /\ pc = "done"
    /\ track_index = 3
    /\ Len(tracks[2]) = 4
    /\ tracks[2][2] = SetTempo(2, 125000)
    /\ start_time = 500000000
    /\ time = 534375000


(***************************************************************************)
(* Claims about ranges and order, checked under SpecBuffer, SpecSchedule   *)
(* and SpecDecode.                                                         *)
(***************************************************************************)
\* C28: each range create_buffer fills, from the sample cursor to the cursor
\* plus the samples of the event, lies within the buffer length, and the
\* cursor never passes the buffer length, so that no fill is out of range.
C28_FillWithinBuffer ==
    /\ panicked # "range end index out of range for slice"
    /\ pc \in {"track", "event", "done"} =>
          /\ 0 <= fill.from
          /\ fill.from <= fill.to
          /\ fill.to <= buffer_length
          /\ sample_number <= buffer_length


\* an event of a track moves the scheduler's time forward or not at all
C29_TimeStep == (~RawSynth /\ pc = "event") => time' >= time

\* the scheduler is not behind the start of its track nor behind a held note,
\* and every scheduled note has its envelope in order
C29_Ordered ==
    /\ (~RawSynth /\ pc = "event") =>
          /\ time >= start_time
          /\ \A k \in DOMAIN played_notes : played_notes[k].start_time <= time
    /\ \A i \in DOMAIN scheduled :
          LET d == scheduled[i]
          IN  /\ d.start_time <= d.start_time + d.attack_duration
              /\ d.start_time + d.attack_duration
                    <= d.end_time - d.release_duration
              /\ d.end_time - d.release_duration <= d.end_time
              /\ d.start_time <= d.end_time

\* C29: the scheduler's time never decreases along a track, so every note
\* stops no earlier than it starts, and its start, the end of its attack, the
\* start of its release and its stop come in this order.
C29_TimeAndEnvelopeOrdered == []C29_Ordered /\ [][C29_TimeStep]_vars

\* a note of 25 ms whose attack ends and whose release begins inside it
C29_Witness ==
    \E i \in DOMAIN scheduled :
        /\ scheduled[i].end_time - scheduled[i].start_time = 25000000
        /\ scheduled[i].attack_duration > 0
        /\ scheduled[i].release_duration > 0
        /\ scheduled[i].start_time + scheduled[i].attack_duration
              < scheduled[i].end_time - scheduled[i].release_duration


RECURSIVE ChunkEnd(_)
\* where the k-th track chunk of the file ends, by the lengths the chunks
\* declare: the header takes 14 bytes, a chunk 8 and its declared length
ChunkEnd(k) ==
    IF k = 0 THEN 14
    ELSE ChunkEnd(k - 1) + 8 + BigEndian(BytesAt(ChunkEnd(k - 1), 5, 8))

\* the file cursor stands at the end of the last chunk opened, the events are
\* read from the bytes of that chunk alone, and decoding ends at the end of
\* the last declared chunk
C30_Cursor ==
    /\ pc = "track" => pointer = ChunkEnd(Len(tracks))
    /\ pc = "event" =>
          /\ pointer = ChunkEnd(Len(tracks) + 1)
          /\ track_buffer = BytesAt(ChunkEnd(Len(tracks)), 9,
                                    pointer - ChunkEnd(Len(tracks)))
          /\ track_pointer <= Len(track_buffer)
    /\ pc = "done" =>
          /\ Len(tracks) = num_tracks
          /\ pointer = ChunkEnd(num_tracks)
          /\ pointer <= Len(buffer)

\* reading an event leaves the file cursor where the chunk ends
C30_EventStep == pc = "event" => pointer' = pointer

\* C30: the events of a track chunk are read from the bytes of its declared
\* length only; once the track is decoded the file cursor is 8 + the declared
\* length past the start of the chunk, also when EndOfTrack comes before the
\* last byte of the chunk, so the next chunk is read from there, and nothing
\* behind the last declared track is read.
C30_ChunkScopedCursor == []C30_Cursor /\ [][C30_EventStep]_vars

\* a first chunk with two bytes behind its EndOfTrack and a second chunk,
\* with one byte behind its EndOfTrack, decoded right after it
C30_Witness ==
    /\ pc = "done"
    /\ num_tracks = 2
    /\ SubSeq(buffer, 23, 28) = <<0, 255, 47, 0, 9, 9>>
    /\ ChunkEnd(1) = 28
    /\ Len(tracks[1]) = 1
    /\ Len(tracks[2]) = 1
    /\ track_pointer = 4
    /\ Len(track_buffer) = 5
    /\ pointer = 41

====
